---- MODULE Spec2Model ----
(***************************************************************************)
(* State-machine model of claude-code-router-plus:                         *)
(*   - MonitoringService (src/src/utils/monitoring.ts): the in-memory      *)
(*     request set, the per-session metrics, the on-disk request log and   *)
(*     metrics file, and the streamLogs subscribers;                       *)
(*   - the session registry and the stop paths (sessionManager part of     *)
(*     src/src/cli.ts, the stop endpoint of src/src/server.ts, the CLI     *)
(*     stop command of src/src/cli.ts).                                    *)
(* Every handler of MonitoringService is synchronous, so it is one atomic  *)
(* action.  averageResponseTime is kept as an exact fraction <<num, den>>  *)
(* in lowest terms.                                                        *)
(***************************************************************************)
EXTENDS Integers, Sequences, FiniteSets, TLC

VARIABLES
  now,             \* the wall clock, Date.now(), in ticks
  nextId,          \* number of request ids issued so far (ids are 1..nextId)
  requests,        \* MonitoringService.requests: id -> RequestLog
  sessionMetrics,  \* MonitoringService.sessionMetrics: sessionId -> SessionMetrics
  metricsFile,     \* monitoring/metrics.json: absent, written (the sessions array) or cut short
  diskLog,         \* the lines appended to logs/requests/<day>.jsonl, in order
  diskOk,          \* whether writes to the disk currently succeed
  dirOk,           \* whether a directory can currently be created under HOME_DIR
  metricsDir,      \* whether the directory monitoring/ exists
  raised,          \* whether the last MonitoringService call threw to its caller
  emitted,         \* the events the last MonitoringService call emitted, in order
  listeners,       \* EventEmitter listeners: event -> sequence of subscribers
  subState,        \* per websocket: "new", "open" or "closed"
  subFilter,       \* per websocket: the sessionId filter given to streamLogs
  frames,          \* per websocket: the frames ws.send has delivered, in order
  sessionJson,     \* per session: its sessions/<id>/session.json
  pidFile,         \* per session: the content of sessions/<id>/router.pid
  refCountFile,    \* per session: the content of sessions/<id>/reference-count.txt
  procs,           \* the host's process table: pid -> process
  call,            \* per caller: the stop invocation it is running
  descPort,        \* per session: the port field of its session.json
  bound,           \* per port of localhost: who listens on it
  boot,            \* per session: the worker that is starting it, and how far it is
  round,           \* the run of increments and decrements a process is in
  rmw,             \* per process: its increment between its read and its write
  spawned,         \* the workers spawned by the start endpoint, in order
  idLog,           \* the session ids resolved so far, with their preferences
  parsed,          \* the preference strings parsed so far, with their results
  waiter,          \* the waitForService call of a command, and how far it is
  service,         \* the files of the service outside the sessions: PID_FILE, REFERENCE_COUNT_FILE
  peer             \* a second worker process on the same HOME_DIR: its MonitoringService

monVars == <<now, nextId, requests, sessionMetrics, metricsFile, diskLog,
             diskOk, dirOk, metricsDir, raised, emitted, listeners, subState, subFilter,
             frames>>

\* the state of the command line's own helpers and of the second worker
cliVars == <<parsed, waiter, service, peer>>

\* the state added around the registry: ports and starting workers
auxVars == <<round, rmw, spawned, idLog, cliVars>>

regVars == <<descPort, bound, boot, auxVars>>

\* regVars without the ports and the starting workers
regRest == <<descPort, auxVars>>

sessVars == <<sessionJson, pidFile, refCountFile, procs, call, regVars>>

vars == <<monVars, sessVars>>

-----------------------------------------------------------------------------
(* Bounds of the model. *)

\* stands for maxLogsInMemory = 1000 (monitoring.ts:37), scaled down
maxLogsInMemory == 3
\* stands for the slice(0, 100) of archiveOldLogs (monitoring.ts:245), scaled down
archiveBatch == 2
\* stands for the limit 50 streamLogs passes to getRecentRequests (monitoring.ts:289)
initialLimit == 2
\* the clock stops advancing here
MaxTime == 2
\* the clock's last tick in the runs across an eviction cycle
CapMaxTime == 1
\* startRequest calls in the runs that compare the running mean with the batch
AvgStarts == 3
\* updateRequest applications in the runs across an eviction cycle
CapMaxUpdates == 1
\* startRequest calls and the clock's last tick in the runs with subscribers
StreamStarts == 3
StreamMaxTime == 1
\* endRequest calls in the runs with subscribers
StreamMaxUpdates == 1
\* startRequest calls, the clock's last tick and endRequest calls in the runs
\* where subscribers disconnect
CloseStarts == 1
CloseMaxTime == 1
CloseMaxUpdates == 1
\* the highest reference count written
MaxRefCount == 1
\* clock ticks per calendar day
DayLen == 2
\* the timeout of waitForService, in polling intervals (10000 ms / 100 ms in
\* the code)
WaitTimeout == 2
\* the most workers the start endpoint spawns in one run
MaxSpawns == 2
\* the most increments, and the most decrements, one process makes in a row
MaxRounds == 2
\* stands for MAX_PORT_RANGE = 100 (cli.ts:552), scaled down
MAX_PORT_RANGE == 2

MaxStarts == maxLogsInMemory + archiveBatch

\* req.sessionId values; NoSession is undefined
NoSession == "undefined"
DefaultSession == "default"
Sessions == {DefaultSession, "s1"}
SessionInputs == {NoSession, "s1"}

\* duration?: number, undefined
NoDuration == -1

Providers == {"p1"}
Models == {"m1"}
Events == {"request:start", "request:update", "request:end", "metrics:update"}
Sockets == {"w1", "w2"}

EmptyMap == [i \in {} |-> 0]

-----------------------------------------------------------------------------
(* Helpers *)

RECURSIVE GCD(_, _)
GCD(a, b) == IF b = 0 THEN a ELSE GCD(b, a % b)

\* a non-negative fraction in lowest terms
Frac(n, d) == LET g == GCD(n, d) IN IF g = 0 THEN <<0, 1>> ELSE <<n \div g, d \div g>>

RECURSIVE SumSet(_, _)
SumSet(S, f) == IF S = {} THEN 0
                ELSE LET x == CHOOSE y \in S : TRUE IN f[x] + SumSet(S \ {x}, f)

Take(seq, n) == SubSeq(seq, 1, IF Len(seq) < n THEN Len(seq) ELSE n)

\* JavaScript truthiness of an optional number
Truthy(n) == n # NoDuration /\ n # 0

\* String.prototype.split(',') on the model strings of this model
SplitComma(str) == IF str = "p1,m1" THEN <<"p1", "m1">> ELSE <<str>>

\* Array.prototype.sort is stable and Map iterates in insertion order, which is
\* the order of the ids: ties between equal timestamps keep ascending id.
RECURSIVE SortAsc(_, _)
SortAsc(reqs, ids) ==
  IF ids = {} THEN <<>>
  ELSE LET m == CHOOSE i \in ids : \A j \in ids :
                  \/ reqs[i].timestamp < reqs[j].timestamp
                  \/ (reqs[i].timestamp = reqs[j].timestamp /\ i <= j)
       IN <<m>> \o SortAsc(reqs, ids \ {m})

RECURSIVE SortDesc(_, _)
SortDesc(reqs, ids) ==
  IF ids = {} THEN <<>>
  ELSE LET m == CHOOSE i \in ids : \A j \in ids :
                  \/ reqs[i].timestamp > reqs[j].timestamp
                  \/ (reqs[i].timestamp = reqs[j].timestamp /\ i <= j)
       IN <<m>> \o SortDesc(reqs, ids \ {m})

-----------------------------------------------------------------------------
(* MonitoringService, as operators on the service state st *)

Cur == [requests |-> requests, sessionMetrics |-> sessionMetrics,
        metricsFile |-> metricsFile, diskLog |-> diskLog, frames |-> frames,
        metricsDir |-> metricsDir, thrown |-> FALSE, emitted |-> <<>>]

SetMon(st) ==
  /\ requests' = st.requests
  /\ sessionMetrics' = st.sessionMetrics
  /\ metricsFile' = st.metricsFile
  /\ diskLog' = st.diskLog
  /\ frames' = st.frames
  /\ metricsDir' = st.metricsDir
  /\ raised' = st.thrown
  /\ emitted' = st.emitted

\* mutant of Matches: the filter is not looked at
MatchesAny(w, sid) == TRUE

\* sendLog / sendMetrics of streamLogs: the frame reaches ws when the socket
\* has no filter or the filter equals the payload's sessionId
Matches(w, sid) == subFilter[w] = NoSession \/ subFilter[w] = sid

RECURSIVE deliver(_, _, _)
deliver(fr, ls, frame) ==
  IF ls = <<>> THEN fr
  ELSE LET w == Head(ls)
           fr1 == IF Matches(w, frame.sessionId)
                  THEN [fr EXCEPT ![w] = Append(@, frame)] ELSE fr
       IN deliver(fr1, Tail(ls), frame)

\* EventEmitter.emit for the events streamLogs listens to
emit(st, event, frame) ==
  [st EXCEPT !.frames = IF event \in DOMAIN listeners
                        THEN deliver(st.frames, listeners[event], frame) ELSE @,
             !.emitted = Append(@, event)]

LogFrame(r) ==
  [type |-> "log", live |-> TRUE, sessionId |-> r.sessionId, ids |-> <<r.id>>]

MetricsFrame(sid) ==
  [type |-> "metrics", live |-> TRUE, sessionId |-> sid, ids |-> <<>>]

\* metrics.json before its first write
NoMetricsFile == [state |-> "absent", sessions |-> <<>>]

\* Array.from(this.sessionMetrics.values()): the metrics in an array (the
\* Map's insertion order is not kept here; no reader depends on it)
MetricsValues(sm) ==
  LET order == <<DefaultSession, "s1">>
      RECURSIVE pick(_)
      pick(k) == IF k > Len(order) THEN <<>>
                 ELSE (IF order[k] \in DOMAIN sm THEN <<sm[order[k]]>> ELSE <<>>) \o pick(k + 1)
  IN pick(1)

\* JSON.stringify({sessions, lastUpdated}) as written by writeFileSync
StringifyMetrics(sm) == [state |-> "written", sessions |-> MetricsValues(sm)]

\* mutant of loadPersistedMetrics: whatever the file holds is taken
loadPersistedMetricsUnparsed(file) ==
  [sid \in {file.sessions[k].sessionId : k \in 1..Len(file.sessions)} |->
     LET last == CHOOSE k \in 1..Len(file.sessions) :
                   /\ file.sessions[k].sessionId = sid
                   /\ \A j \in (k + 1)..Len(file.sessions) : file.sessions[j].sessionId # sid
     IN file.sessions[last]]

\* loadPersistedMetrics: nothing when the file is missing or JSON.parse
\* throws; otherwise each element of sessions is set under its own sessionId,
\* a later element replacing an earlier one
loadPersistedMetrics(file) ==
  IF file.state # "written" THEN EmptyMap
  ELSE [sid \in {file.sessions[k].sessionId : k \in 1..Len(file.sessions)} |->
          LET last == CHOOSE k \in 1..Len(file.sessions) :
                        /\ file.sessions[k].sessionId = sid
                        /\ \A j \in (k + 1)..Len(file.sessions) : file.sessions[j].sessionId # sid
          IN file.sessions[last]]

\* mutant of persistMetrics: the sessions of the file that are not in memory
\* are kept
persistMetricsMerged(st) ==
  IF ~st.metricsDir /\ ~dirOk THEN [st EXCEPT !.thrown = TRUE]
  ELSE LET made == [st EXCEPT !.metricsDir = TRUE]
           old  == loadPersistedMetrics(st.metricsFile)
           all  == [s \in DOMAIN old \cup DOMAIN st.sessionMetrics |->
                      IF s \in DOMAIN st.sessionMetrics
                      THEN st.sessionMetrics[s] ELSE old[s]]
       IN IF diskOk THEN [made EXCEPT !.metricsFile = StringifyMetrics(all)]
          ELSE made

\* persistMetrics: mkdirSync of a missing monitoring/ stands before the try
\* and throws when it fails; a failing writeFileSync is caught and logged
persistMetrics(st) ==
  IF ~st.metricsDir /\ ~dirOk THEN [st EXCEPT !.thrown = TRUE]
  ELSE LET made == [st EXCEPT !.metricsDir = TRUE]
       IN IF diskOk THEN [made EXCEPT !.metricsFile = StringifyMetrics(st.sessionMetrics)]
          ELSE made

\* appendFileSync to <day>.jsonl: the file is keyed by the day of the write;
\* via names the caller
persistRequestLog(st, r, via) ==
  IF diskOk
  THEN [st EXCEPT !.diskLog =
          Append(@, [via |-> via, day |-> now \div DayLen, entry |-> r])]
  ELSE st

\* mutant of NewMetrics: a new session starts with an error on its account
NewMetricsOneError(sid) ==
  [sessionId |-> sid, requestCount |-> 0, totalInputTokens |-> 0,
   totalOutputTokens |-> 0, averageResponseTime |-> <<0, 1>>, errors |-> 1,
   providers |-> [p \in Providers |-> 0], models |-> [m \in Models |-> 0]]

NewMetrics(sid) ==
  [sessionId |-> sid, requestCount |-> 0, totalInputTokens |-> 0,
   totalOutputTokens |-> 0, averageResponseTime |-> <<0, 1>>, errors |-> 0,
   providers |-> [p \in Providers |-> 0], models |-> [m \in Models |-> 0]]

\* mutant of AvgStep: the earlier mean is not weighted by the earlier count
AvgStepUnweighted(avg, count, duration) ==
  Frac(avg[1] + duration * avg[2], avg[2] * count)

\* totalTime = avg * (requestCount - 1) + duration; avg = totalTime / requestCount
AvgStep(avg, count, duration) ==
  Frac(avg[1] * (count - 1) + duration * avg[2], avg[2] * count)

updateSessionMetrics(st, r) ==
  LET sid == r.sessionId
      m0 == IF sid \in DOMAIN st.sessionMetrics
            THEN st.sessionMetrics[sid] ELSE NewMetrics(sid)
      n  == m0.requestCount + 1
      m1 == [m0 EXCEPT
               !.requestCount = n,
               !.errors = IF r.status = "error" THEN @ + 1 ELSE @,
               !.totalInputTokens = IF r.inputTokens # 0 THEN @ + r.inputTokens ELSE @,
               !.totalOutputTokens = IF r.outputTokens # 0 THEN @ + r.outputTokens ELSE @,
               !.averageResponseTime =
                   IF Truthy(r.duration) /\ r.status = "success"
                   THEN AvgStep(@, n, r.duration) ELSE @,
               !.providers = IF r.provider # ""
                             THEN [@ EXCEPT ![r.provider] = @ + 1] ELSE @,
               !.models = IF r.model # ""
                          THEN [@ EXCEPT ![r.model] = @ + 1] ELSE @]
      sm == [s \in DOMAIN st.sessionMetrics \cup {sid} |->
               IF s = sid THEN m1 ELSE st.sessionMetrics[s]]
      st1 == persistMetrics([st EXCEPT !.sessionMetrics = sm])
  IN IF st1.thrown THEN st1 ELSE emit(st1, "metrics:update", MetricsFrame(sid))

\* Object.assign(request, updates): only the keys present in updates are written
Assign(r, u) == [f \in DOMAIN r |-> IF f \in u.keys THEN u.vals[f] ELSE r[f]]

\* mutant of Completes: only a success is persisted
CompletesOnSuccess(u) == "status" \in u.keys /\ u.vals.status = "success"

\* updates.status === 'success' || updates.status === 'error'
Completes(u) == "status" \in u.keys /\ u.vals.status \in {"success", "error"}

\* mutant of updateRequest: an entry that has completed is not counted again
updateRequestOnce(st, id, u) ==
  IF id \notin DOMAIN st.requests THEN st
  ELSE LET r   == Assign(st.requests[id], u)
           st1 == [st EXCEPT !.requests[id] = r]
           st2 == IF st.requests[id].status = "pending"
                  THEN updateSessionMetrics(st1, r) ELSE st1
           st3 == emit(st2, "request:update", LogFrame(r))
       IN IF Completes(u) THEN persistRequestLog(st3, r, "updateRequest") ELSE st3

updateRequest(st, id, u) ==
  IF id \notin DOMAIN st.requests THEN st
  ELSE LET r   == Assign(st.requests[id], u)
           st1 == [st EXCEPT !.requests[id] = r]
           st2 == IF r.sessionId # "" THEN updateSessionMetrics(st1, r) ELSE st1
           st3 == emit(st2, "request:update", LogFrame(r))
       IN IF st2.thrown THEN st2
          ELSE IF Completes(u)
          THEN persistRequestLog(st3, r, "updateRequest")
          ELSE st3

\* the updates endRequest builds from its response and error arguments
EndUpdates(r, response, error) ==
  LET parts == SplitComma(response.model)
      base  == {"duration", "status", "error"}
      keys  == base \cup (IF response.model # "" THEN
                            (IF Len(parts) = 2 THEN {"provider", "model"} ELSE {"model"})
                          ELSE {})
                    \cup (IF response.usage THEN {"inputTokens", "outputTokens"} ELSE {})
  IN [keys |-> keys,
      vals |-> [duration |-> now - r.timestamp,
                status |-> IF error THEN "error" ELSE "success",
                error |-> error,
                provider |-> IF Len(parts) = 2 THEN parts[1] ELSE "",
                model |-> IF Len(parts) = 2 THEN parts[2] ELSE response.model,
                inputTokens |-> response.input_tokens,
                outputTokens |-> response.output_tokens]]

\* mutant of endRequest: the closing event is left out
endRequestSilent(st, id, response, error) ==
  IF id \notin DOMAIN st.requests THEN st
  ELSE updateRequest(st, id, EndUpdates(st.requests[id], response, error))

\* mutant of endRequest: the closing event is emitted outside the test for the
\* entry
endRequestAlwaysEmits(st, id, response, error) ==
  IF id \notin DOMAIN st.requests THEN [st EXCEPT !.emitted = Append(@, "request:end")]
  ELSE LET st1 == updateRequest(st, id, EndUpdates(st.requests[id], response, error))
       IN IF st1.thrown THEN st1
          ELSE emit(st1, "request:end", LogFrame(st1.requests[id]))

endRequest(st, id, response, error) ==
  IF id \notin DOMAIN st.requests THEN st
  ELSE LET st1 == updateRequest(st, id, EndUpdates(st.requests[id], response, error))
       IN IF st1.thrown THEN st1
          ELSE emit(st1, "request:end", LogFrame(st1.requests[id]))

RECURSIVE archiveEach(_, _)
archiveEach(st, ids) ==
  IF ids = <<>> THEN st
  ELSE LET id  == Head(ids)
           st1 == persistRequestLog(st, st.requests[id], "archiveOldLogs")
           st2 == [st1 EXCEPT !.requests =
                     [i \in DOMAIN st1.requests \ {id} |-> st1.requests[i]]]
       IN archiveEach(st2, Tail(ids))

\* mutant of OldestRequests: the comparator reversed, the newest entries go
NewestRequests(reqs) == Take(SortDesc(reqs, DOMAIN reqs), archiveBatch)

\* entries sorted by ascending timestamp, slice(0, 100)
OldestRequests(reqs) == Take(SortAsc(reqs, DOMAIN reqs), archiveBatch)

archiveOldLogs(st) == archiveEach(st, OldestRequests(st.requests))

NewRequest(id, sid) ==
  [id |-> id, timestamp |-> now, sessionId |-> sid, status |-> "pending",
   duration |-> NoDuration, error |-> FALSE, provider |-> "", model |-> "",
   inputTokens |-> 0, outputTokens |-> 0]

\* mutant of OverCapacity: the set is trimmed one entry late
OverCapacityLate(n) == n > maxLogsInMemory + 1

\* this.requests.size > this.maxLogsInMemory
OverCapacity(n) == n > maxLogsInMemory

startRequestEff(st, id, reqSession) ==
  LET sid == IF reqSession = NoSession THEN DefaultSession ELSE reqSession
      r   == NewRequest(id, sid)
      st1 == [st EXCEPT !.requests =
                [i \in DOMAIN st.requests \cup {id} |->
                   IF i = id THEN r ELSE st.requests[i]]]
      st2 == emit(st1, "request:start", LogFrame(r))
  IN IF OverCapacity(Cardinality(DOMAIN st2.requests))
     THEN archiveOldLogs(st2) ELSE st2

\* mutant of getRecentRequests: the comparator reversed, oldest first
getOldestRequests(reqs, sid, limit) ==
  Take(SortAsc(reqs, {i \in DOMAIN reqs : sid = NoSession \/ reqs[i].sessionId = sid}),
       limit)

\* filter(!sessionId || r.sessionId === sessionId), newest first, slice(0, limit)
getRecentRequests(reqs, sid, limit) ==
  Take(SortDesc(reqs, {i \in DOMAIN reqs : sid = NoSession \/ reqs[i].sessionId = sid}),
       limit)

\* mutant of clearLogsEff: the filter is not looked at
clearLogsAll(st, sid) ==
  emit([st EXCEPT !.requests = EmptyMap], "logs:cleared", MetricsFrame(sid))

clearLogsEff(st, sid) ==
  emit(IF sid # NoSession
       THEN [st EXCEPT !.requests =
               [i \in {j \in DOMAIN st.requests : st.requests[j].sessionId # sid} |->
                  st.requests[i]]]
       ELSE [st EXCEPT !.requests = EmptyMap],
       "logs:cleared", MetricsFrame(sid))

resetMetricsEff(st, sid) ==
  LET st1 == persistMetrics(
               IF sid # NoSession
               THEN [st EXCEPT !.sessionMetrics =
                       [s \in DOMAIN st.sessionMetrics \ {sid} |-> st.sessionMetrics[s]]]
               ELSE [st EXCEPT !.sessionMetrics = EmptyMap])
  IN IF st1.thrown THEN st1 ELSE emit(st1, "metrics:reset", MetricsFrame(sid))

-----------------------------------------------------------------------------
(* MonitoringService: the actions *)

\* what a worker's response body carries: model "" and usage FALSE are absent
Responses ==
  { [model |-> "", usage |-> FALSE, input_tokens |-> 0, output_tokens |-> 0],
    [model |-> "m1", usage |-> FALSE, input_tokens |-> 0, output_tokens |-> 0],
    [model |-> "p1,m1", usage |-> TRUE, input_tokens |-> 1, output_tokens |-> 2] }

AvgResponses == {r \in Responses : r.model = "p1,m1"}

\* the partial RequestLogs passed to updateRequest directly
Updates ==
  { [keys |-> {"status"}, vals |-> [status |-> "success"]],
    [keys |-> {"status"}, vals |-> [status |-> "error"]],
    [keys |-> {"model"}, vals |-> [model |-> "m1"]],
    [keys |-> {"status", "duration"}, vals |-> [status |-> "success", duration |-> 2]] }

MonInit ==
  /\ now = 0
  /\ nextId = 0
  /\ requests = EmptyMap
  /\ sessionMetrics = EmptyMap
  /\ metricsFile = NoMetricsFile
  /\ diskLog = <<>>
  /\ diskOk = TRUE
  /\ dirOk = TRUE
  /\ metricsDir = FALSE
  /\ raised = FALSE
  /\ emitted = <<>>
  /\ listeners = [e \in Events |-> <<>>]
  /\ subState = [w \in Sockets |-> "new"]
  /\ subFilter = [w \in Sockets |-> NoSession]
  /\ frames = [w \in Sockets |-> <<>>]

\* time passes between two handlers
Tick(limit) ==
  /\ now < limit
  /\ now' = now + 1
  /\ UNCHANGED <<nextId, requests, sessionMetrics, metricsFile, diskLog, diskOk, dirOk,
                 metricsDir, raised, emitted, listeners, subState, subFilter, frames>>
  /\ UNCHANGED sessVars

startRequest(reqSession) ==
  /\ nextId' = nextId + 1
  /\ SetMon(startRequestEff(Cur, nextId + 1, reqSession))
  /\ UNCHANGED <<now, diskOk, dirOk, listeners, subState, subFilter>>
  /\ UNCHANGED sessVars

UpdateRequest(id, u) ==
  /\ SetMon(updateRequest(Cur, id, u))
  /\ UNCHANGED <<now, nextId, diskOk, dirOk, listeners, subState, subFilter>>
  /\ UNCHANGED sessVars

EndRequest(id, response, error) ==
  /\ SetMon(endRequest(Cur, id, response, error))
  /\ UNCHANGED <<now, nextId, diskOk, dirOk, listeners, subState, subFilter>>
  /\ UNCHANGED sessVars

clearLogs(sid) ==
  /\ SetMon(clearLogsEff(Cur, sid))
  /\ UNCHANGED <<now, nextId, diskOk, dirOk, listeners, subState, subFilter>>
  /\ UNCHANGED sessVars

resetMetrics(sid) ==
  /\ SetMon(resetMetricsEff(Cur, sid))
  /\ UNCHANGED <<now, nextId, diskOk, dirOk, listeners, subState, subFilter>>
  /\ UNCHANGED sessVars

\* the frames streamLogs sends itself: the initial batch, then the metrics
\* snapshot (one session's metrics if filtered and present, else all)
InitialFrames(sid) ==
  LET initial == [type |-> "initial", live |-> FALSE, sessionId |-> sid,
                  ids |-> getRecentRequests(requests, sid, initialLimit)]
      snapshot == IF sid # NoSession
                  THEN IF sid \in DOMAIN sessionMetrics
                       THEN <<[type |-> "metrics", live |-> FALSE,
                               sessionId |-> sid, ids |-> <<>>]>>
                       ELSE <<>>
                  ELSE <<[type |-> "metrics", live |-> FALSE,
                          sessionId |-> "all", ids |-> <<>>]>>
  IN <<initial>> \o snapshot

\* this.on(event, sendLog / sendMetrics) for the four events
Subscribe(ls, w) == [e \in Events |-> Append(ls[e], w)]

RECURSIVE Without(_, _)
Without(seq, w) ==
  IF seq = <<>> THEN <<>>
  ELSE IF Head(seq) = w THEN Tail(seq)
       ELSE <<Head(seq)>> \o Without(Tail(seq), w)

\* mutant of Unsubscribe: the metrics:update listener stays registered
UnsubscribeLogsOnly(ls, w) ==
  [e \in Events |-> IF e = "metrics:update" THEN ls[e] ELSE Without(ls[e], w)]

\* this.removeListener(event, ...) for the four events
Unsubscribe(ls, w) == [e \in Events |-> Without(ls[e], w)]

streamLogs(w, sid) ==
  /\ subState[w] = "new"
  /\ subState' = [subState EXCEPT ![w] = "open"]
  /\ subFilter' = [subFilter EXCEPT ![w] = sid]
  /\ frames' = [frames EXCEPT ![w] = @ \o InitialFrames(sid)]
  /\ listeners' = Subscribe(listeners, w)
  /\ UNCHANGED <<now, nextId, requests, sessionMetrics, metricsFile, diskLog, diskOk, dirOk,
                 metricsDir, raised, emitted>>
  /\ UNCHANGED sessVars

\* the socket's close event
wsClose(w) ==
  /\ subState[w] = "open"
  /\ subState' = [subState EXCEPT ![w] = "closed"]
  /\ listeners' = Unsubscribe(listeners, w)
  /\ UNCHANGED <<now, nextId, requests, sessionMetrics, metricsFile, diskLog, diskOk, dirOk,
                 metricsDir, raised, emitted, subFilter, frames>>
  /\ UNCHANGED sessVars

\* writes to files start to fail (the disk is full, a file is read-only)
DiskBreaks ==
  /\ diskOk
  /\ diskOk' = FALSE
  /\ UNCHANGED <<now, nextId, requests, sessionMetrics, metricsFile, diskLog, dirOk,
                 metricsDir, raised, emitted, listeners, subState, subFilter, frames>>
  /\ UNCHANGED sessVars

\* and succeed again
DiskRepaired ==
  /\ ~diskOk
  /\ diskOk' = TRUE
  /\ UNCHANGED <<now, nextId, requests, sessionMetrics, metricsFile, diskLog, dirOk,
                 metricsDir, raised, emitted, listeners, subState, subFilter, frames>>
  /\ UNCHANGED sessVars

\* HOME_DIR stops accepting new entries (its mode is changed, its quota is
\* reached); logs/requests, made by the constructor, stays writable
HomeLocked ==
  /\ dirOk
  /\ dirOk' = FALSE
  /\ UNCHANGED <<now, nextId, requests, sessionMetrics, metricsFile, diskLog, diskOk,
                 metricsDir, raised, emitted, listeners, subState, subFilter, frames>>
  /\ UNCHANGED sessVars

\* and accepts them again
HomeUnlocked ==
  /\ ~dirOk
  /\ dirOk' = TRUE
  /\ UNCHANGED <<now, nextId, requests, sessionMetrics, metricsFile, diskLog, diskOk,
                 metricsDir, raised, emitted, listeners, subState, subFilter, frames>>
  /\ UNCHANGED sessVars

Pids == {"p1", "p2"}
Callers == {"c1"}

IdleCall == [op |-> "none", pc |-> "idle", sid |-> "", pid |-> "", sent |-> <<>>,
             port |-> 0, pref |-> "", sessionId |-> <<>>, cursor |-> 0,
             reply |-> [code |-> 0, success |-> FALSE, msg |-> ""]]

BASE_PORT == 3456

\* no command is inside waitForService
IdleWaiter == [pc |-> "idle", sid |-> "", elapsed |-> 0, result |-> FALSE]

\* no run of increments and decrements is in progress
NoRound == [on |-> FALSE, sid |-> "", orig |-> 0, nUp |-> 0, nDown |-> 0,
            ups |-> 0, downs |-> 0]

\* the processes that use a session and count themselves in
RefProcs == {"r1", "r2"}

\* a process that is not inside incrementSessionReferenceCount
IdleRmw == [pc |-> "idle", sid |-> "", local |-> 0]

\* the ports findAvailablePort may probe, and the one right after them
Ports == BASE_PORT..(BASE_PORT + MAX_PORT_RANGE)

\* no worker is starting the session
IdleBoot == [pc |-> "none", pid |-> "", start |-> 0, cursor |-> 0, busy |-> <<>>,
             port |-> 0, err |-> ""]

\* no session has been started yet and no process holds a pid of the model
\* the second worker before it is started
NoPeer == [up |-> FALSE, requests |-> EmptyMap, sessionMetrics |-> EmptyMap]

SessInit ==
  /\ sessionJson = [s \in Sessions |-> "absent"]
  /\ pidFile = [s \in Sessions |-> "absent"]
  /\ refCountFile = [s \in Sessions |-> [exists |-> FALSE, count |-> 0]]
  /\ procs = [p \in Pids |-> "none"]
  /\ call = [c \in Callers |-> IdleCall]
  /\ descPort = [s \in Sessions |-> 0]
  /\ bound = [q \in Ports |-> "free"]
  /\ boot = [s \in Sessions |-> IdleBoot]
  /\ round = NoRound
  /\ rmw = [r \in RefProcs |-> IdleRmw]
  /\ spawned = <<>>
  /\ idLog = {}
  /\ parsed = {}
  /\ waiter = IdleWaiter
  /\ service = [pidFile |-> "absent", refCount |-> FALSE]
  /\ peer = NoPeer

Init == MonInit /\ SessInit

\* startRequest and endRequest only, each request ended once
NextAvg ==
  \/ Tick(MaxTime)
  \/ \E sid \in SessionInputs : nextId < AvgStarts /\ startRequest(sid)
  \/ \E id \in DOMAIN requests, resp \in AvgResponses, err \in BOOLEAN :
       requests[id].status = "pending" /\ EndRequest(id, resp, err)

SpecAvg == Init /\ [][NextAvg]_vars

\* updateRequest applications so far (no metrics are reset in these runs)
TotalUpdates ==
  SumSet(DOMAIN sessionMetrics, [s \in DOMAIN sessionMetrics |-> sessionMetrics[s].requestCount])

CapUpdates == {u \in Updates : u.keys = {"status"} /\ u.vals.status = "success"}
CapResponses == {r \in Responses : r.model = ""}

\* the requests of two clients alternate: one sends no sessionId, one sends "s1"
CapSessionOf(id) == IF id % 2 = 1 THEN NoSession ELSE "s1"

\* every operation that touches the request set, across an eviction cycle
NextCap ==
  \/ Tick(CapMaxTime)
  \/ \E sid \in SessionInputs :
       nextId < MaxStarts /\ sid = CapSessionOf(nextId + 1) /\ startRequest(sid)
  \/ \E id \in DOMAIN requests, u \in CapUpdates :
       TotalUpdates < CapMaxUpdates /\ UpdateRequest(id, u)
  \/ \E id \in DOMAIN requests, resp \in CapResponses :
       TotalUpdates < CapMaxUpdates /\ EndRequest(id, resp, TRUE)
  \/ \E sid \in Sessions \cup {NoSession} : requests # EmptyMap /\ clearLogs(sid)

SpecCap == Init /\ [][NextCap]_vars

-----------------------------------------------------------------------------
(* Claims on averageResponseTime *)

\* the lines updateRequest appended for session s with status success and a
\* duration: the successful durations recorded for s
SuccessLines(s) ==
  {k \in 1..Len(diskLog) :
     /\ diskLog[k].via = "updateRequest"
     /\ diskLog[k].entry.sessionId = s
     /\ diskLog[k].entry.status = "success"
     /\ Truthy(diskLog[k].entry.duration)}

EndedLines(s) ==
  {k \in 1..Len(diskLog) :
     diskLog[k].via = "updateRequest" /\ diskLog[k].entry.sessionId = s}

DurationSum(K) == SumSet(K, [k \in K |-> diskLog[k].entry.duration])

\* avg = sum / n, for the fraction avg
IsMean(avg, sum, n) == IF n = 0 THEN avg = <<0, 1>> ELSE avg[1] * n = sum * avg[2]

\* C1: for every session, averageResponseTime is the arithmetic mean of the
\* durations of the session's requests that ended with status success and
\* reported a duration, however successes and failures are interleaved
\* (stated for sessions all of whose requests took a positive time)
C1_AverageIsMeanOfSuccesses ==
  \A s \in DOMAIN sessionMetrics :
    (\A k \in EndedLines(s) : diskLog[k].entry.duration > 0) =>
      IsMean(sessionMetrics[s].averageResponseTime,
             DurationSum(SuccessLines(s)), Cardinality(SuccessLines(s)))

\* C2: for a session whose requests all ended successfully with positive
\* durations d1..dN, averageResponseTime is (d1+...+dN)/N after every end
C2_IncrementalEqualsBatch ==
  \A s \in DOMAIN sessionMetrics :
    EndedLines(s) = SuccessLines(s) =>
      /\ sessionMetrics[s].requestCount = Cardinality(EndedLines(s))
      /\ IsMean(sessionMetrics[s].averageResponseTime,
                DurationSum(EndedLines(s)), Cardinality(EndedLines(s)))

\* three successes of one session with durations 1, 2, 2 (mean 5/3)
C2_Witness ==
  \E s \in DOMAIN sessionMetrics :
    /\ EndedLines(s) = SuccessLines(s)
    /\ Cardinality(EndedLines(s)) = 3
    /\ DurationSum(EndedLines(s)) = 5
    /\ sessionMetrics[s].averageResponseTime = <<5, 3>>

-----------------------------------------------------------------------------
(* Claims on the capacity of the request set *)

ArchiveLines == {k \in 1..Len(diskLog) : diskLog[k].via = "archiveOldLogs"}

\* C3: the request set never holds more than maxLogsInMemory entries between
\* two handlers, and maxLogsInMemory + archiveBatch startRequest calls from
\* the empty set (nothing removed by clearLogs) leave exactly maxLogsInMemory
\* entries in memory and archiveBatch archived
C3_CapacityBound ==
  /\ Cardinality(DOMAIN requests) <= maxLogsInMemory
  /\ (/\ nextId = maxLogsInMemory + archiveBatch
      /\ Cardinality(DOMAIN requests) + Cardinality(ArchiveLines) = nextId)
     => /\ Cardinality(DOMAIN requests) = maxLogsInMemory
        /\ Cardinality(ArchiveLines) = archiveBatch

C3_Witness ==
  /\ nextId = maxLogsInMemory + archiveBatch
  /\ Cardinality(DOMAIN requests) = maxLogsInMemory
  /\ Cardinality(ArchiveLines) = archiveBatch
  /\ \E i \in DOMAIN requests : requests[i].status # "pending"

\* the lines a step appended to the on-disk log
Appended == SubSeq(diskLog', Len(diskLog) + 1, Len(diskLog'))

EvictsOldest ==
  LET ev    == Appended
      evIds == {ev[k].entry.id : k \in 1..Len(ev)}
  IN /\ Len(ev) = archiveBatch
     /\ Cardinality(evIds) = archiveBatch
     /\ \A k \in 1..Len(ev) :
          /\ ev[k].via = "archiveOldLogs"
          /\ ev[k].entry.id \in DOMAIN requests
          /\ ev[k].entry = requests[ev[k].entry.id]
     /\ \A k, l \in 1..Len(ev) :
          k < l => ev[k].entry.timestamp <= ev[l].entry.timestamp
     /\ DOMAIN requests' = (DOMAIN requests \cup {nextId'}) \ evIds
     /\ \A i \in DOMAIN requests', k \in 1..Len(ev) :
          requests'[i].timestamp >= ev[k].entry.timestamp

\* C4: a startRequest that pushes the set above maxLogsInMemory appends
\* exactly the archiveBatch entries with the lowest timestamps to the on-disk
\* log, in ascending timestamp order, and removes them from memory; what is
\* left in memory is no older than anything evicted
C4_EvictsOldestInOrder ==
  [][(nextId' = nextId + 1 /\ Cardinality(DOMAIN requests) >= maxLogsInMemory)
       => EvictsOldest]_vars

\* an eviction has taken entries of two different timestamps
C4_Witness ==
  /\ Cardinality(ArchiveLines) >= archiveBatch
  /\ \E k, l \in ArchiveLines :
       k < l /\ diskLog[k].entry.timestamp < diskLog[l].entry.timestamp
  /\ \E i \in DOMAIN requests : requests[i].timestamp = CapMaxTime

-----------------------------------------------------------------------------
(* streamLogs subscribers *)

StreamResponses == {r \in Responses : r.model = ""}

\* the socket of the runs that follow one subscriber from its first frame on
StreamSockets == {"w1"}

\* one subscriber subscribes, with any filter, while requests start and end
NextStream ==
  \/ Tick(StreamMaxTime)
  \/ \E sid \in SessionInputs : nextId < StreamStarts /\ startRequest(sid)
  \/ \E id \in DOMAIN requests, resp \in StreamResponses :
       /\ requests[id].status = "pending" /\ TotalUpdates < StreamMaxUpdates
       /\ EndRequest(id, resp, FALSE)
  \/ \E w \in StreamSockets, sid \in Sessions \cup {NoSession} : streamLogs(w, sid)
  \/ \E w \in StreamSockets : wsClose(w)

SpecStream == Init /\ [][NextStream]_vars

\* subscribers come and go while requests start and end
NextClose ==
  \/ Tick(CloseMaxTime)
  \/ \E sid \in SessionInputs : nextId < CloseStarts /\ startRequest(sid)
  \/ \E id \in DOMAIN requests, resp \in StreamResponses :
       /\ requests[id].status = "pending" /\ TotalUpdates < CloseMaxUpdates
       /\ EndRequest(id, resp, FALSE)
  \/ \E w \in Sockets, sid \in Sessions \cup {NoSession} : streamLogs(w, sid)
  \/ \E w \in Sockets : wsClose(w)

SpecClose == Init /\ [][NextClose]_vars

\* no frame streamLogs sent itself comes after a frame a listener sent
SnapshotsFirst(fr) ==
  \A j, k \in 1..Len(fr) : (j < k /\ fr[j].live) => fr[k].live

\* ids is the newest-first list of the (at most initialLimit) most recent
\* entries of reqs that match the filter sid
IsRecentBatch(ids, reqs, sid) ==
  LET M == {i \in DOMAIN reqs : sid = NoSession \/ reqs[i].sessionId = sid}
      n == IF Cardinality(M) < initialLimit THEN Cardinality(M) ELSE initialLimit
      S == {ids[k] : k \in 1..Len(ids)}
  IN /\ Len(ids) = n
     /\ Cardinality(S) = n
     /\ S \subseteq M
     /\ \A j, k \in 1..Len(ids) :
          j < k => reqs[ids[j]].timestamp >= reqs[ids[k]].timestamp
     /\ \A i \in M \ S, k \in 1..Len(ids) :
          reqs[i].timestamp <= reqs[ids[k]].timestamp

FirstFrameIsInitial(w) ==
  /\ Len(frames'[w]) >= 1
  /\ frames'[w][1].type = "initial"
  /\ ~frames'[w][1].live
  /\ Len(frames'[w][1].ids) <= initialLimit
  /\ IsRecentBatch(frames'[w][1].ids, requests, subFilter'[w])
  /\ \A k \in 2..Len(frames'[w]) : frames'[w][k].type # "initial"

IsSnapshot(f) == f.type = "metrics" /\ ~f.live

Subscribing(w) == subState[w] = "new" /\ subState'[w] = "open"

\* C5 as stated: the first frame is the initial batch, the metrics snapshot
\* always follows it, and no live frame comes before these
C5_InitialThenSnapshotAlways ==
  [][\A w \in Sockets :
       /\ Subscribing(w) =>
            /\ FirstFrameIsInitial(w)
            /\ Len(frames'[w]) = 2
            /\ IsSnapshot(frames'[w][2])
       /\ subState'[w] # "new" =>
            /\ Len(frames'[w]) >= 2
            /\ IsSnapshot(frames'[w][2])
            /\ SnapshotsFirst(frames'[w])]_vars

\* C5 amended: the first frame is the initial batch (at most initialLimit
\* entries, the most recent matching ones, newest first); the metrics
\* snapshot follows it unless the filter names a session without metrics, in
\* which case nothing follows; no live frame comes before these
C5_InitialThenSnapshot ==
  [][\A w \in Sockets :
       /\ Subscribing(w) =>
            /\ FirstFrameIsInitial(w)
            /\ IF subFilter'[w] = NoSession \/ subFilter'[w] \in DOMAIN sessionMetrics
               THEN Len(frames'[w]) = 2 /\ IsSnapshot(frames'[w][2])
               ELSE Len(frames'[w]) = 1
       /\ subState'[w] # "new" =>
            /\ frames'[w][1].type = "initial"
            /\ SnapshotsFirst(frames'[w])]_vars

\* a subscriber filtered to a session got a batch cut to initialLimit, its
\* snapshot and then live frames
C5_Witness ==
  \E w \in Sockets :
    /\ subFilter[w] # NoSession
    /\ Len(frames[w]) >= 3
    /\ Len(frames[w][1].ids) = initialLimit
    /\ Cardinality({i \in DOMAIN requests : requests[i].sessionId = subFilter[w]})
         > initialLimit
    /\ \E i \in DOMAIN requests : requests[i].timestamp # requests[frames[w][1].ids[1]].timestamp
    /\ IsSnapshot(frames[w][2])
    /\ frames[w][3].live

ListenerCount == SumSet(Events, [e \in Events |-> Len(listeners[e])])

Listening(w) == \E e \in Events : \E k \in 1..Len(listeners[e]) : listeners[e][k] = w

\* C6: once a socket's close event has fired its four listeners are removed
\* and it receives no further frame; the service holds four listeners per
\* connected subscriber
C6_NoFramesAfterClose ==
  [][/\ \A w \in Sockets :
          /\ subState[w] = "closed" => frames'[w] = frames[w]
          /\ subState'[w] = "closed" => ~Listening(w)'
     /\ ListenerCount' = 4 * Cardinality({w \in Sockets : subState'[w] = "open"})]_vars

\* a request started and ended after one socket closed while another stayed open
C6_Witness ==
  \E w, v \in Sockets, i \in DOMAIN requests :
    /\ subState[w] = "closed" /\ subState[v] = "open"
    /\ subFilter[w] = NoSession /\ subFilter[v] = NoSession
    /\ requests[i].status = "success"
    /\ \A k \in 1..Len(frames[w]) : \A j \in 1..Len(frames[w][k].ids) : frames[w][k].ids[j] # i
    /\ Len(frames[w][1].ids) < initialLimit
    /\ \E k \in 1..Len(frames[v]) : frames[v][k].live /\ frames[v][k].ids = <<i>>

-----------------------------------------------------------------------------
(* The session registry and the stop paths *)

\* isProcessRunning(pid) of utils/processCheck: whether the OS has a process
\* with that pid, whoever owns it
isProcessRunning(pid) == procs[pid] # "none"

\* mutant of isSessionRunning: only a process that is a worker counts
isSessionRunningWorker(s) ==
  IF pidFile[s] = "absent" THEN FALSE
  ELSE procs[pidFile[s]] \in {"running", "stubborn", "terminating"}

\* existsSync(pidFile), then parseInt of its content handed to isProcessRunning
isSessionRunning(s) ==
  IF pidFile[s] = "absent" THEN FALSE ELSE isProcessRunning(pidFile[s])

\* getSessionPid: null when the pid file is absent
getSessionPid(s) == pidFile[s]

\* cleanupSessionPid: unlink the pid file if it exists
cleanupSessionPid(pf, s) == [pf EXCEPT ![s] = "absent"]

\* existsSync(referenceCountFile) and unlinkSync
unlinkReferenceCount(rf, s) == [rf EXCEPT ![s] = [exists |-> FALSE, count |-> 0]]

\* getAllActiveSessions: the sessions with a parsable session.json that pass
\* isSessionRunning
getAllActiveSessions == {s \in Sessions : sessionJson[s] = "valid" /\ isSessionRunning(s)}

\* the outcome of process.kill(pid, signal)
KillOutcome(pid) ==
  CASE procs[pid] = "none" -> "ESRCH"
    [] procs[pid] = "foreign" -> "EPERM"
    [] OTHER -> "ok"

\* a delivered SIGTERM: the process starts to exit unless it ignores the signal
AfterSigterm(pr, pid) ==
  IF pr[pid] = "running" THEN [pr EXCEPT ![pid] = "terminating"] ELSE pr

\* a delivered SIGKILL
AfterSigkill(pr, pid) == [pr EXCEPT ![pid] = "none"]

\* the OS closes the listening sockets of a process that is gone
Release(bnd, pid) == [q \in Ports |-> IF bnd[q] = pid THEN "free" ELSE bnd[q]]

\* a worker that is gone no longer starts anything
Unboot(bt, pid) == [s \in Sessions |-> IF bt[s].pid = pid THEN IdleBoot ELSE bt[s]]

Reply(code, success, msg) == [code |-> code, success |-> success, msg |-> msg]

Done(c, reply, sent) ==
  [call EXCEPT ![c] = [@ EXCEPT !.pc = "done", !.reply = reply, !.sent = sent]]

\* a caller asks whether session s is alive
IsSessionRunningCall(c, s) ==
  /\ call[c].pc = "idle"
  /\ call' = [call EXCEPT ![c] =
       [IdleCall EXCEPT !.op = "isSessionRunning", !.pc = "done", !.sid = s,
                        !.reply = Reply(0, isSessionRunning(s), "")]]
  /\ UNCHANGED <<sessionJson, pidFile, refCountFile, procs>>
  /\ UNCHANGED monVars
  /\ UNCHANGED regVars

\* POST /api/sessions/:sessionId/stop, up to the lookup of the session among
\* the active sessions (server.ts:280-287)
HttpStopList(c, s) ==
  /\ call[c].pc = "idle"
  /\ call' = [call EXCEPT ![c] =
       IF s \in getAllActiveSessions
       THEN [IdleCall EXCEPT !.op = "httpStop", !.pc = "term", !.sid = s]
       ELSE [IdleCall EXCEPT !.op = "httpStop", !.pc = "done", !.sid = s,
                             !.reply = Reply(404, FALSE, "Session not found")]]
  /\ UNCHANGED <<sessionJson, pidFile, refCountFile, procs>>
  /\ UNCHANGED monVars
  /\ UNCHANGED regVars

\* getSessionPid and process.kill(pid, 'SIGTERM') with its catch (server.ts:289-347)
HttpStopTerm(c) ==
  LET s   == call[c].sid
      pid == getSessionPid(s)
  IN /\ call[c].op = "httpStop" /\ call[c].pc = "term"
     /\ IF pid = "absent"
        THEN /\ call' = Done(c, Reply(200, FALSE, "not running (no PID found)"), <<>>)
             /\ UNCHANGED <<pidFile, procs>>
        ELSE CASE KillOutcome(pid) = "ok" ->
                    /\ call' = [call EXCEPT ![c] =
                         [@ EXCEPT !.pc = "wait", !.pid = pid,
                                   !.sent = <<<<"SIGTERM", "ok">>>>]]
                    /\ procs' = AfterSigterm(procs, pid)
                    /\ UNCHANGED pidFile
               [] KillOutcome(pid) = "EPERM" ->
                    /\ call' = Done(c, Reply(403, FALSE, "Permission denied"),
                                    <<<<"SIGTERM", "EPERM">>>>)
                    /\ UNCHANGED <<pidFile, procs>>
               [] KillOutcome(pid) = "ESRCH" ->
                    /\ call' = Done(c, Reply(200, TRUE, "was already stopped"),
                                    <<<<"SIGTERM", "ESRCH">>>>)
                    /\ pidFile' = cleanupSessionPid(pidFile, s)
                    /\ UNCHANGED procs
     /\ UNCHANGED <<sessionJson, refCountFile>>
     /\ UNCHANGED monVars
     /\ UNCHANGED regVars

\* try { kill(pid, 0); kill(pid, 'SIGKILL') } catch {}: SIGKILL follows a probe
\* that did not throw
Escalate(outcome) == outcome = "ok"

\* after the 500 ms: the probe, the SIGKILL, the cleanup (server.ts:296-319)
HttpStopAfterWait(c) ==
  LET s     == call[c].sid
      pid   == call[c].pid
      probe == KillOutcome(pid)
      kill  == Escalate(probe)
  IN /\ call[c].op = "httpStop" /\ call[c].pc = "wait"
     /\ procs' = IF kill /\ probe = "ok" THEN AfterSigkill(procs, pid) ELSE procs
     /\ pidFile' = cleanupSessionPid(pidFile, s)
     /\ refCountFile' = unlinkReferenceCount(refCountFile, s)
     /\ call' = Done(c, Reply(200, TRUE, "stopped successfully"),
                     call[c].sent \o <<<<"0", probe>>>>
                       \o (IF kill THEN <<<<"SIGKILL", probe>>>> ELSE <<>>))
     /\ bound' = IF kill /\ probe = "ok" THEN Release(bound, pid) ELSE bound
     /\ boot' = IF kill /\ probe = "ok" THEN Unboot(boot, pid) ELSE boot
     /\ UNCHANGED sessionJson
     /\ UNCHANGED monVars
     /\ UNCHANGED regRest

\* ccr stop: main's getSessionConfig and isSessionRunning (cli.ts:79-82)
CliStopMain(c, s) ==
  /\ call[c].pc = "idle"
  /\ call' = [call EXCEPT ![c] = [IdleCall EXCEPT !.op = "cliStop", !.pc = "stop", !.sid = s]]
  /\ UNCHANGED <<sessionJson, pidFile, refCountFile, procs>>
  /\ UNCHANGED monVars
  /\ UNCHANGED regVars

\* ccr stop: case "stop" (cli.ts:102-130); exit code 0 on every path
CliStopCase(c) ==
  LET s   == call[c].sid
      pid == getSessionPid(s)
  IN /\ call[c].op = "cliStop" /\ call[c].pc = "stop"
     /\ IF pid = "absent"
        THEN /\ call' = Done(c, Reply(0, FALSE, "is not running"), <<>>)
             /\ UNCHANGED <<pidFile, refCountFile, procs>>
        ELSE IF KillOutcome(pid) = "ok"
        THEN /\ call' = [call EXCEPT ![c] =
                  [@ EXCEPT !.pc = "done", !.pid = pid,
                            !.reply = Reply(0, TRUE, "has been successfully stopped"),
                            !.sent = <<<<"SIGTERM", "ok">>>>]]
             /\ procs' = AfterSigterm(procs, pid)
             /\ pidFile' = cleanupSessionPid(pidFile, s)
             /\ refCountFile' = unlinkReferenceCount(refCountFile, s)
        ELSE /\ call' = [call EXCEPT ![c] =
                  [@ EXCEPT !.pc = "done", !.pid = pid,
                            !.reply = Reply(0, TRUE, "may have already been stopped"),
                            !.sent = <<<<"SIGTERM", KillOutcome(pid)>>>>]]
             /\ pidFile' = cleanupSessionPid(pidFile, s)
             /\ UNCHANGED <<refCountFile, procs>>
     /\ UNCHANGED sessionJson
     /\ UNCHANGED monVars
     /\ UNCHANGED regVars

\* the caller takes the answer and is ready for its next call
Return(c) ==
  /\ call[c].pc = "done"
  /\ call' = [call EXCEPT ![c] = IdleCall]
  /\ UNCHANGED <<sessionJson, pidFile, refCountFile, procs>>
  /\ UNCHANGED monVars
  /\ UNCHANGED regVars

\* incrementSessionReferenceCount, within one process
incrementSessionReferenceCount(s) ==
  /\ refCountFile[s].count < MaxRefCount
  /\ refCountFile' = [refCountFile EXCEPT ![s] = [exists |-> TRUE, count |-> @.count + 1]]
  /\ UNCHANGED <<sessionJson, pidFile, procs, call>>
  /\ UNCHANGED monVars
  /\ UNCHANGED regVars

\* a worker of session s starts: the descriptor is persisted, the worker runs
\* under a free pid (it may ignore SIGTERM) and records its pid
WorkerStart(s, pid, kind) ==
  /\ ~isSessionRunning(s)
  /\ procs[pid] = "none"
  /\ procs' = [procs EXCEPT ![pid] = kind]
  /\ pidFile' = [pidFile EXCEPT ![s] = pid]
  /\ sessionJson' = [sessionJson EXCEPT ![s] = "valid"]
  /\ UNCHANGED <<refCountFile, call>>
  /\ UNCHANGED monVars
  /\ UNCHANGED regVars

\* a process exits (it crashed, or it finished handling SIGTERM); the files
\* of its session stay as they are
ProcExit(pid) ==
  /\ procs[pid] # "none"
  /\ procs' = [procs EXCEPT ![pid] = "none"]
  /\ bound' = Release(bound, pid)
  /\ boot' = Unboot(boot, pid)
  /\ UNCHANGED <<sessionJson, pidFile, refCountFile, call>>
  /\ UNCHANGED monVars
  /\ UNCHANGED regRest

\* the OS gives a free pid to an unrelated process, of this user or another
PidReuse(pid, kind) ==
  /\ procs[pid] = "none"
  /\ procs' = [procs EXCEPT ![pid] = kind]
  /\ UNCHANGED <<sessionJson, pidFile, refCountFile, call>>
  /\ UNCHANGED monVars
  /\ UNCHANGED regVars

NextStop ==
  \/ \E c \in Callers, s \in Sessions : IsSessionRunningCall(c, s)
  \/ \E c \in Callers, s \in Sessions : HttpStopList(c, s)
  \/ \E c \in Callers : HttpStopTerm(c)
  \/ \E c \in Callers : HttpStopAfterWait(c)
  \/ \E c \in Callers, s \in Sessions : CliStopMain(c, s)
  \/ \E c \in Callers : CliStopCase(c)
  \/ \E c \in Callers : Return(c)
  \/ \E s \in Sessions : incrementSessionReferenceCount(s)
  \/ \E s \in Sessions, pid \in Pids, kind \in {"running", "stubborn"} :
       WorkerStart(s, pid, kind)
  \/ \E pid \in Pids : ProcExit(pid)
  \/ \E pid \in Pids, kind \in {"running", "foreign"} : PidReuse(pid, kind)

SpecStop == Init /\ [][NextStop]_vars

-----------------------------------------------------------------------------
(* Claims on liveness checks and stop *)

\* caller c's call returns in this step
Returned(c) == call[c].pc # "done" /\ call'[c].pc = "done"

StopOps == {"httpStop", "cliStop"}

\* a pid was recorded for s and no process has that pid
Stale(s) == pidFile[s] \in Pids /\ procs[pidFile[s]] = "none"

\* C7: when a pid was recorded for a session and that process has died,
\* isSessionRunning returns false and the pid file is gone after the call
C7_StalePidFileRemoved ==
  [][\A c \in Callers :
       (Returned(c) /\ call'[c].op = "isSessionRunning" /\ Stale(call'[c].sid))
         => /\ ~call'[c].reply.success
            /\ pidFile'[call'[c].sid] = "absent"]_vars

\* C8: stop of a session whose pid file names a pid no process has answers
\* success, from the HTTP endpoint as from the CLI command
C8_StopOfDeadPidSucceeds ==
  [][\A c \in Callers :
       (/\ Returned(c) /\ call'[c].op \in StopOps
        /\ sessionJson[call'[c].sid] = "valid" /\ Stale(call'[c].sid))
         => /\ call'[c].reply.success
            /\ call'[c].reply.code \in {0, 200}]_vars

\* C9: after a stop that signalled has returned, whatever the signalling gave,
\* the pid file and the reference-count file are absent
C9_StopAlwaysCleansUp ==
  [][\A c \in Callers :
       (Returned(c) /\ call'[c].op \in StopOps /\ call'[c].sent # <<>>)
         => /\ pidFile'[call'[c].sid] = "absent"
            /\ ~refCountFile'[call'[c].sid].exists]_vars

\* SIGTERM first; after a delivered SIGTERM the zero-signal probe, and SIGKILL
\* exactly when the probe found the process
EscalationDiscipline(sent) ==
  sent # <<>> =>
    /\ sent[1][1] = "SIGTERM"
    /\ sent[1][2] = "ok" =>
         /\ Len(sent) >= 2
         /\ sent[2][1] = "0"
         /\ Len(sent) = 3 <=> sent[2][2] = "ok"
         /\ Len(sent) = 3 => sent[3][1] = "SIGKILL"
         /\ Len(sent) <= 3

\* C10: every stop sends SIGTERM, waits, probes with signal 0 and sends
\* SIGKILL if and only if the probe finds the process
C10_StopEscalates ==
  [][\A c \in Callers :
       (Returned(c) /\ call'[c].op \in StopOps) => EscalationDiscipline(call'[c].sent)]_vars

(* Ports, descriptors and the start of a worker *)

SessionPortDefault(sj, dp, s) == BASE_PORT

\* mutant of SessionPort: the port is taken from whatever the file holds,
\* parsable or not
SessionPortUnparsed(sj, dp, s) ==
  IF sj[s] # "absent" /\ dp[s] # 0 THEN dp[s] ELSE BASE_PORT

\* getSessionConfig's port: savedConfig.port || BASE_PORT when session.json
\* exists and parses, BASE_PORT otherwise
SessionPort(sj, dp, s) ==
  IF sj[s] = "valid" /\ dp[s] # 0 THEN dp[s] ELSE BASE_PORT

\* a caller runs getSessionConfig for the preference of session s
GetSessionConfigCall(c, s) ==
  /\ call[c].pc = "idle"
  /\ call' = [call EXCEPT ![c] =
       [IdleCall EXCEPT !.op = "getSessionConfig", !.pc = "done", !.sid = s,
                        !.port = SessionPort(sessionJson, descPort, s)]]
  /\ UNCHANGED <<sessionJson, pidFile, refCountFile, procs>>
  /\ UNCHANGED monVars
  /\ UNCHANGED regVars

\* saveSessionConfig: session.json is overwritten with the config
saveSessionConfig(s, port) ==
  /\ sessionJson' = [sessionJson EXCEPT ![s] = "valid"]
  /\ descPort' = [descPort EXCEPT ![s] = port]

\* isPortAvailable: a server listens on 127.0.0.1:q; an error answers false,
\* a successful listen is closed again and answers true
isPortAvailable(bnd, q, who) ==
  [available |-> bnd[q] = "free", bnd |-> bnd]

InRangeInclusive(start, port) == port <= start + MAX_PORT_RANGE

\* the loop condition of findAvailablePort
InRange(start, port) == port < start + MAX_PORT_RANGE

PortExhausted == "No available ports found in range"

\* node cli.js start for session s comes up as process pid: main's
\* getSessionConfig and isSessionRunning, then run; a session without a
\* descriptor gets a port from findAvailablePort(BASE_PORT), one with a
\* descriptor keeps its port
runStart(s, pid, kind) ==
  /\ ~isSessionRunning(s)
  /\ boot[s].pc = "none"
  /\ procs[pid] = "none"
  /\ procs' = [procs EXCEPT ![pid] = kind]
  /\ boot' = [boot EXCEPT ![s] =
       IF sessionJson[s] = "valid"
       THEN [IdleBoot EXCEPT !.pc = "listen", !.pid = pid,
                             !.port = SessionPort(sessionJson, descPort, s)]
       ELSE [IdleBoot EXCEPT !.pc = "scan", !.pid = pid,
                             !.start = BASE_PORT, !.cursor = BASE_PORT]]
  /\ UNCHANGED <<sessionJson, pidFile, refCountFile, descPort, bound>>
  /\ UNCHANGED monVars

\* a start from the command line: nothing else changes
spawnStart(s, pid, kind) ==
  /\ runStart(s, pid, kind)
  /\ UNCHANGED call
  /\ UNCHANGED auxVars

\* ccr start (cli.ts:72-101)
CliStart(s, pid, kind) == spawnStart(s, pid, kind)

\* ccr restart: "restart" is not among the session-aware commands, so
\* sessionConfig is null and the default branch runs (cli.ts:461-493): it
\* works on the global pid file and spawns node cli.js start, which inherits
\* the preference from the environment
CliRestart(s, pid, kind) == spawnStart(s, pid, kind)

\* one turn of findAvailablePort's loop in the worker that starts session s
findAvailablePort(s) ==
  LET b     == boot[s]
      probe == isPortAvailable(bound, b.cursor, b.pid)
  IN /\ b.pc = "scan"
     /\ IF ~InRange(b.start, b.cursor)
        THEN \* throw: the start attempt ends
             /\ boot' = [boot EXCEPT ![s] =
                  [IdleBoot EXCEPT !.start = b.start, !.busy = b.busy,
                                   !.err = PortExhausted]]
             /\ procs' = [procs EXCEPT ![b.pid] = "none"]
             /\ bound' = Release(bound, b.pid)
        ELSE /\ boot' = [boot EXCEPT ![s] =
                  IF probe.available
                  THEN [b EXCEPT !.pc = "persist", !.port = b.cursor]
                  ELSE [b EXCEPT !.cursor = b.cursor + 1,
                                 !.busy = Append(b.busy, b.cursor)]]
             /\ bound' = probe.bnd
             /\ UNCHANGED procs
     /\ UNCHANGED <<sessionJson, pidFile, refCountFile, call, descPort>>
     /\ UNCHANGED monVars
     /\ UNCHANGED auxVars
  /\ UNCHANGED auxVars

\* the worker persists the descriptor with the port it was given
RunPersist(s) ==
  /\ boot[s].pc = "persist"
  /\ saveSessionConfig(s, boot[s].port)
  /\ boot' = [boot EXCEPT ![s] = [@ EXCEPT !.pc = "listen"]]
  /\ UNCHANGED <<pidFile, refCountFile, procs, call, bound>>
  /\ UNCHANGED monVars
  /\ UNCHANGED auxVars

\* the worker binds its port and records its pid (saveSessionPid); a port
\* that is taken by now ends the worker
RunListen(s) ==
  LET b == boot[s]
  IN /\ b.pc = "listen"
     /\ IF bound[b.port] = "free"
        THEN /\ bound' = [bound EXCEPT ![b.port] = b.pid]
             /\ pidFile' = [pidFile EXCEPT ![s] = b.pid]
             /\ UNCHANGED procs
        ELSE /\ procs' = [procs EXCEPT ![b.pid] = "none"]
             /\ bound' = Release(bound, b.pid)
             /\ UNCHANGED pidFile
     /\ boot' = [boot EXCEPT ![s] = IdleBoot]
     /\ UNCHANGED <<sessionJson, refCountFile, call, descPort>>
     /\ UNCHANGED monVars
     /\ UNCHANGED auxVars
  /\ UNCHANGED auxVars

\* an unrelated program starts to listen on a port of localhost
PortTaken(q) ==
  /\ bound[q] = "free"
  /\ bound' = [bound EXCEPT ![q] = "other"]
  /\ UNCHANGED <<sessionJson, pidFile, refCountFile, procs, call, descPort, boot>>
  /\ UNCHANGED monVars
  /\ UNCHANGED auxVars

\* and stops to
PortFreed(q) ==
  /\ bound[q] = "other"
  /\ bound' = [bound EXCEPT ![q] = "free"]
  /\ UNCHANGED <<sessionJson, pidFile, refCountFile, procs, call, descPort, boot>>
  /\ UNCHANGED monVars
  /\ UNCHANGED auxVars

\* starts, stops and restarts of the sessions
NextSess ==
  \/ \E c \in Callers, s \in Sessions : GetSessionConfigCall(c, s)
  \/ \E s \in Sessions, pid \in Pids : CliStart(s, pid, "running")
  \/ \E s \in Sessions, pid \in Pids : CliRestart(s, pid, "running")
  \/ \E s \in Sessions : findAvailablePort(s)
  \/ \E s \in Sessions : RunPersist(s)
  \/ \E s \in Sessions : RunListen(s)
  \/ \E c \in Callers, s \in Sessions : CliStopMain(c, s)
  \/ \E c \in Callers : CliStopCase(c)
  \/ \E c \in Callers : Return(c)
  \/ \E s \in Sessions : incrementSessionReferenceCount(s)
  \/ \E pid \in Pids : ProcExit(pid)

SpecSess == Init /\ [][NextSess]_vars


\* the step in which the worker that starts session s persists its descriptor
Persists(s) == boot[s].pc = "persist" /\ boot'[s].pc = "listen"

\* a caller gets the answer of getSessionConfig for session s in this step
ReadsConfig(c, s) ==
  /\ call[c].pc = "idle"
  /\ call'[c].op = "getSessionConfig" /\ call'[c].sid = s

\* C11: once a descriptor with port p is persisted for a session, every step
\* that is not another persist of that session (stop, restart, pid-file and
\* reference-count operations, process exits) leaves the descriptor and its
\* port as they are, and every getSessionConfig of the session answers p
C11_PortIsSticky ==
  [][\A s \in Sessions :
       sessionJson[s] = "valid" =>
         /\ ~Persists(s) =>
              /\ sessionJson'[s] = "valid"
              /\ descPort'[s] = descPort[s]
              /\ SessionPort(sessionJson', descPort', s) = descPort[s]
         /\ \A c \in Callers : ReadsConfig(c, s) => call'[c].port = descPort[s]]_vars

\* a session that ran on the second port was stopped by ccr stop and is being
\* started again with the port of its descriptor
C11_Witness ==
  \E c \in Callers, s \in Sessions :
    /\ call[c].op = "cliStop" /\ call[c].pc = "done" /\ call[c].sid = s
    /\ call[c].reply.success
    /\ descPort[s] = BASE_PORT + 1
    /\ boot[s].pc = "listen" /\ boot[s].port = BASE_PORT + 1

(* The port scan in a changing environment *)

\* workers start and scan for a port while other programs take and free ports
NextPort ==
  \/ \E s \in Sessions, pid \in Pids : CliStart(s, pid, "running")
  \/ \E s \in Sessions : findAvailablePort(s)
  \/ \E s \in Sessions : RunPersist(s)
  \/ \E s \in Sessions : RunListen(s)
  \/ \E pid \in Pids : ProcExit(pid)
  \/ \E q \in Ports : PortTaken(q)
  \/ \E q \in Ports : PortFreed(q)

SpecPort == Init /\ [][NextPort]_vars

\* findAvailablePort of the worker that starts s returns in this step
ScanReturns(s) == boot[s].pc = "scan" /\ boot'[s].pc = "persist"

\* findAvailablePort of the worker that starts s throws in this step
ScanThrows(s) == boot[s].pc = "scan" /\ boot'[s].err = PortExhausted

\* the first n ports from start on, in order
FirstPorts(start, n) == [i \in 1..n |-> start + i - 1]

\* C12: findAvailablePort(start) returns a port of [start, start + MAX_PORT_RANGE)
\* that is bindable when it is probed, after it found every lower port of the
\* range occupied at that port's probe, and it leaves no listener behind; it
\* throws the port-exhausted error only after it found all ports of the range
\* occupied, and once it has found them all occupied it probes no further
C12_LowestBindablePort ==
  [][\A s \in Sessions :
       LET b == boot[s] IN
       /\ ScanReturns(s) =>
            /\ boot'[s].port \in b.start..(b.start + MAX_PORT_RANGE - 1)
            /\ bound[boot'[s].port] = "free"
            /\ boot'[s].busy = FirstPorts(b.start, boot'[s].port - b.start)
            /\ bound' = bound
       /\ (b.pc = "scan" /\ Len(boot'[s].busy) > Len(b.busy)) =>
            /\ bound[b.cursor] # "free"
            /\ boot'[s].busy = Append(b.busy, b.cursor)
            /\ bound' = bound
       /\ ScanThrows(s) => b.busy = FirstPorts(b.start, MAX_PORT_RANGE)
       /\ (b.pc = "scan" /\ Len(b.busy) = MAX_PORT_RANGE /\ boot'[s] # b) =>
            boot'[s].pc = "none"]_vars

\* one scan found the whole range occupied and threw; another found the base
\* port occupied and returned the port after it
C12_Witness ==
  \E s, t \in Sessions :
    /\ boot[t].err = PortExhausted /\ Len(boot[t].busy) = MAX_PORT_RANGE
    /\ boot[s].pc = "persist" /\ boot[s].port = BASE_PORT + 1
    /\ boot[s].busy = <<BASE_PORT>>

\* C13: no two distinct sessions have the same port in their descriptors
C13_DistinctPorts ==
  \A s, t \in Sessions :
    (s # t /\ sessionJson[s] = "valid" /\ sessionJson[t] = "valid")
      => descPort[s] # descPort[t]

(* The reference count of a session *)

\* getSessionReferenceCount: 0 without the file, else the number in it
getSessionReferenceCount(rf, s) == IF rf[s].exists THEN rf[s].count ELSE 0

\* the file after incrementSessionReferenceCount: count++ on what was read
incremented(rf, s) ==
  [rf EXCEPT ![s] = [exists |-> TRUE, count |-> getSessionReferenceCount(rf, s) + 1]]

decrementedUnclamped(rf, s) ==
  [rf EXCEPT ![s] = [exists |-> TRUE, count |-> getSessionReferenceCount(rf, s) - 1]]

\* the file after decrementSessionReferenceCount: Math.max(0, count - 1)
decremented(rf, s) ==
  [rf EXCEPT ![s] =
     [exists |-> TRUE,
      count |-> IF getSessionReferenceCount(rf, s) - 1 > 0
                THEN getSessionReferenceCount(rf, s) - 1 ELSE 0]]

\* a process sets out to increment nUp times and then decrement nDown times
\* the count of session s, with no other writer meanwhile
RoundBegin(s, nUp, nDown) ==
  /\ ~round.on
  /\ nUp = 0 \/ getSessionReferenceCount(refCountFile, s) <= MaxRefCount
  /\ round' = [on |-> TRUE, sid |-> s,
               orig |-> getSessionReferenceCount(refCountFile, s),
               nUp |-> nUp, nDown |-> nDown, ups |-> 0, downs |-> 0]
  /\ UNCHANGED <<sessionJson, pidFile, refCountFile, procs, call>>
  /\ UNCHANGED <<descPort, bound, boot, rmw, spawned, idLog>>
  /\ UNCHANGED cliVars
  /\ UNCHANGED monVars

\* its next incrementSessionReferenceCount
RoundIncrement ==
  /\ round.on /\ round.ups < round.nUp
  /\ refCountFile' = incremented(refCountFile, round.sid)
  /\ round' = [round EXCEPT !.ups = @ + 1]
  /\ UNCHANGED <<sessionJson, pidFile, procs, call>>
  /\ UNCHANGED <<descPort, bound, boot, rmw, spawned, idLog>>
  /\ UNCHANGED cliVars
  /\ UNCHANGED monVars

\* its next decrementSessionReferenceCount
RoundDecrement ==
  /\ round.on /\ round.ups = round.nUp /\ round.downs < round.nDown
  /\ refCountFile' = decremented(refCountFile, round.sid)
  /\ round' = [round EXCEPT !.downs = @ + 1]
  /\ UNCHANGED <<sessionJson, pidFile, procs, call>>
  /\ UNCHANGED <<descPort, bound, boot, rmw, spawned, idLog>>
  /\ UNCHANGED cliVars
  /\ UNCHANGED monVars

RoundDone == round.on /\ round.ups = round.nUp /\ round.downs = round.nDown

\* it has made them all
RoundEnd ==
  /\ RoundDone
  /\ round' = NoRound
  /\ UNCHANGED <<sessionJson, pidFile, refCountFile, procs, call>>
  /\ UNCHANGED <<descPort, bound, boot, rmw, spawned, idLog>>
  /\ UNCHANGED cliVars
  /\ UNCHANGED monVars

NextRef ==
  \/ \E s \in Sessions, nUp \in 0..MaxRounds, nDown \in 0..MaxRounds :
       RoundBegin(s, nUp, nDown)
  \/ RoundIncrement
  \/ RoundDecrement
  \/ RoundEnd

SpecRef == Init /\ [][NextRef]_vars

\* C14: in one process with no other writer, n increments followed by n
\* decrements leave the reference count at the value it had before; a
\* decrement at 0 leaves it at 0; the count read back is never negative
C14_IncrementsThenDecrementsCancel ==
  [][/\ (RoundDone' /\ round'.nUp = round'.nDown) =>
          getSessionReferenceCount(refCountFile', round'.sid) = round'.orig
     /\ (round.on /\ round'.downs = round.downs + 1
           /\ getSessionReferenceCount(refCountFile, round.sid) = 0) =>
          getSessionReferenceCount(refCountFile', round.sid) = 0
     /\ \A s \in Sessions : getSessionReferenceCount(refCountFile', s) >= 0]_vars

\* two increments and two decrements have brought a count of 1 back to 1,
\* while the other session's count stayed at 0 through a decrement
C14_Witness ==
  /\ RoundDone /\ round.nUp = 2 /\ round.nDown = 2 /\ round.orig = 1
  /\ getSessionReferenceCount(refCountFile, round.sid) = 1
  /\ \E t \in Sessions : t # round.sid /\ refCountFile[t] = [exists |-> TRUE, count |-> 0]

(* Two processes count themselves in *)

writtenAfterReread(local, rf, s) == getSessionReferenceCount(rf, s) + 1

\* what incrementSessionReferenceCount writes: count++ on the number it read
written(local, rf, s) == local + 1

\* existsSync and readFileSync of incrementSessionReferenceCount in process r
IncRead(r, s) ==
  /\ rmw[r].pc = "idle"
  /\ getSessionReferenceCount(refCountFile, s) <= MaxRefCount
  /\ rmw' = [rmw EXCEPT ![r] =
       [pc |-> "read", sid |-> s, local |-> getSessionReferenceCount(refCountFile, s)]]
  /\ UNCHANGED <<sessionJson, pidFile, refCountFile, procs, call>>
  /\ UNCHANGED <<descPort, bound, boot, round, spawned, idLog>>
  /\ UNCHANGED cliVars
  /\ UNCHANGED monVars

\* its writeFileSync
IncWrite(r) ==
  /\ rmw[r].pc = "read"
  /\ refCountFile' = [refCountFile EXCEPT ![rmw[r].sid] =
       [exists |-> TRUE, count |-> written(rmw[r].local, refCountFile, rmw[r].sid)]]
  /\ rmw' = [rmw EXCEPT ![r] = [@ EXCEPT !.pc = "done"]]
  /\ UNCHANGED <<sessionJson, pidFile, procs, call>>
  /\ UNCHANGED <<descPort, bound, boot, round, spawned, idLog>>
  /\ UNCHANGED cliVars
  /\ UNCHANGED monVars

\* incrementSessionReferenceCount returns
IncReturn(r) ==
  /\ rmw[r].pc = "done"
  /\ rmw' = [rmw EXCEPT ![r] = IdleRmw]
  /\ UNCHANGED <<sessionJson, pidFile, refCountFile, procs, call>>
  /\ UNCHANGED <<descPort, bound, boot, round, spawned, idLog>>
  /\ UNCHANGED cliVars
  /\ UNCHANGED monVars

NextRmw ==
  \/ \E r \in RefProcs, s \in Sessions : IncRead(r, s)
  \/ \E r \in RefProcs : IncWrite(r)
  \/ \E r \in RefProcs : IncReturn(r)

SpecRmw == Init /\ [][NextRmw]_vars

\* both processes have just incremented the count of session s
BothIncremented(s) ==
  \A r \in RefProcs : rmw[r].pc = "done" /\ rmw[r].sid = s

\* C15: when two processes increment the same session's count concurrently and
\* both read the file before either writes it, one update is lost: after both
\* writes the count is 1 above the number they read, not 2
C15_ConcurrentIncrementLosesUpdate ==
  \A s \in Sessions :
    (BothIncremented(s) /\ rmw["r1"].local = rmw["r2"].local)
      => getSessionReferenceCount(refCountFile, s) = rmw["r1"].local + 1

\* both processes read 0 and both have written: the count is 1
C15_Witness ==
  \E s \in Sessions :
    /\ BothIncremented(s)
    /\ rmw["r1"].local = 0 /\ rmw["r2"].local = 0
    /\ getSessionReferenceCount(refCountFile, s) = 1

(* The answers of the stop endpoint *)

\* C16: the stop endpoint answers 404 for a session id without a descriptor,
\* 403 exactly when the signal is rejected for lack of permission, and 200
\* with success for a known session whose recorded process no longer exists,
\* be it that its pid is dead or that a stop has just removed its pid file
C16_StopEndpointAnswers ==
  [][\A c \in Callers :
       (Returned(c) /\ call'[c].op = "httpStop") =>
         LET s == call'[c].sid
             reply == call'[c].reply
         IN /\ sessionJson[s] = "absent" => reply.code = 404
            /\ reply.code = 403 <=> call'[c].sent = <<<<"SIGTERM", "EPERM">>>>
            /\ (sessionJson[s] = "valid" /\ (pidFile[s] = "absent" \/ Stale(s)))
                 => (reply.code = 200 /\ reply.success)]_vars

(* Session ids *)

\* the preference strings of this model: none, blank, and four that name a
\* provider and a model
Preferences ==
  {"", "   ", "openrouter,gpt-4", "openrouter,gpt-72041",
   "openrouter,model-7341", "openrouter,model-106789"}

\* createHash('md5').update(modelPreference).digest('hex'): the 32 hex digits
\* of the MD5 digest of each preference string of this model
md5hex(modelPreference) ==
  CASE modelPreference = "   " ->
       <<"6", "2", "8", "6", "3", "1", "f", "0", "7", "3", "2", "1", "b", "2", "2", "d",
         "8", "c", "1", "7", "6", "c", "2", "0", "0", "c", "8", "5", "5", "e", "1", "b">>
    [] modelPreference = "openrouter,gpt-4" ->
       <<"f", "c", "9", "2", "2", "7", "4", "d", "0", "7", "b", "1", "6", "6", "0", "f",
         "e", "1", "f", "8", "3", "c", "4", "4", "9", "7", "3", "f", "1", "1", "6", "5">>
    [] modelPreference = "openrouter,gpt-72041" ->
       <<"f", "c", "9", "2", "5", "2", "b", "d", "0", "a", "b", "c", "a", "8", "b", "9",
         "b", "1", "e", "d", "b", "2", "5", "f", "0", "3", "b", "d", "9", "8", "b", "e">>
    [] modelPreference = "openrouter,model-7341" ->
       <<"6", "e", "5", "5", "d", "a", "5", "8", "8", "9", "9", "2", "6", "c", "3", "1",
         "7", "1", "a", "d", "6", "a", "f", "7", "d", "c", "4", "e", "0", "4", "b", "a">>
    [] modelPreference = "openrouter,model-106789" ->
       <<"6", "e", "5", "5", "d", "a", "5", "8", "6", "c", "8", "9", "7", "f", "e", "7",
         "f", "6", "4", "7", "9", "0", "1", "a", "e", "f", "9", "4", "a", "3", "1", "4">>

\* String.prototype.substring(from, to) on a string of characters
substring(str, from, to) == SubSeq(str, from + 1, to)

\* the literal 'default'
DefaultId == <<"d", "e", "f", "a", "u", "l", "t">>

generateSessionIdSalted(modelPreference) ==
  IF modelPreference = "" THEN DefaultId
  ELSE IF bound[BASE_PORT] = "free" THEN substring(md5hex(modelPreference), 0, 8)
  ELSE substring(md5hex(modelPreference), 8, 16)

generateSessionIdShort(modelPreference) ==
  IF modelPreference = "" THEN DefaultId
  ELSE substring(md5hex(modelPreference), 0, 4)

\* generateSessionId: 'default' when !modelPreference, else the first 8 hex
\* digits of the MD5 digest
generateSessionId(modelPreference) ==
  IF modelPreference = "" THEN DefaultId
  ELSE substring(md5hex(modelPreference), 0, 8)

\* join(SESSIONS_DIR, sessionId) and the files getSessionConfig names in it
sessionPaths(sessionId) ==
  [sessionDir |-> <<"sessions", sessionId>>,
   pidFile |-> <<"sessions", sessionId, "router.pid">>,
   referenceCountFile |-> <<"sessions", sessionId, "reference-count.txt">>,
   sessionConfigFile |-> <<"sessions", sessionId, "session.json">>]

(* The start endpoint *)

\* the session directory an id names, among the directories of this model
SessionOfId(sessionId) == IF sessionId = DefaultId THEN DefaultSession ELSE "s1"

\* the bodies sent to the start endpoint: without and with a modelPreference
StartInputs == {"", "openrouter,gpt-4"}

MissingPreferenceNever(modelPreference) == FALSE

\* if (!modelPreference)
MissingPreference(modelPreference) == modelPreference = ""

\* POST /api/sessions/start up to the spawn (server.ts:358-393)
HttpStart(c, modelPreference) ==
  LET sessionId == generateSessionId(modelPreference)
      s         == SessionOfId(sessionId)
      asked     == [IdleCall EXCEPT !.op = "httpStart", !.pref = modelPreference]
      config    == [asked EXCEPT !.sid = s, !.sessionId = sessionId,
                                 !.port = SessionPort(sessionJson, descPort, s)]
  IN /\ call[c].pc = "idle"
     /\ IF MissingPreference(modelPreference)
        THEN /\ call' = [call EXCEPT ![c] =
                  [asked EXCEPT !.pc = "done",
                                !.reply = Reply(400, FALSE, "Model preference is required")]]
             /\ UNCHANGED spawned
        ELSE IF isSessionRunning(s)
        THEN /\ call' = [call EXCEPT ![c] =
                  [config EXCEPT !.pc = "done",
                                 !.reply = Reply(200, FALSE, "is already running")]]
             /\ UNCHANGED spawned
        ELSE /\ Len(spawned) < MaxSpawns
             /\ call' = [call EXCEPT ![c] = [config EXCEPT !.pc = "wait"]]
             /\ spawned' = Append(spawned,
                  [cmd |-> <<"node", "cli.js", "start">>, detached |-> TRUE,
                   CCR_MODEL_PREFERENCE |-> modelPreference, up |-> FALSE])
     /\ UNCHANGED <<sessionJson, pidFile, refCountFile, procs>>
     /\ UNCHANGED <<descPort, bound, boot, round, rmw, idLog>>
     /\ UNCHANGED cliVars
     /\ UNCHANGED monVars

\* after the 2000 ms: the answer with the config read before the spawn
\* (server.ts:395-403)
HttpStartReply(c) ==
  /\ call[c].op = "httpStart" /\ call[c].pc = "wait"
  /\ call' = Done(c, Reply(200, TRUE, "Session started"), <<>>)
  /\ UNCHANGED <<sessionJson, pidFile, refCountFile, procs>>
  /\ UNCHANGED regVars
  /\ UNCHANGED monVars

\* a spawned node cli.js start comes up as process pid and starts the session
\* of the preference in its environment
SpawnedStart(k, pid) ==
  /\ k \in 1..Len(spawned) /\ ~spawned[k].up
  /\ runStart(SessionOfId(generateSessionId(spawned[k].CCR_MODEL_PREFERENCE)), pid, "running")
  /\ spawned' = [spawned EXCEPT ![k] = [@ EXCEPT !.up = TRUE]]
  /\ UNCHANGED call
  /\ UNCHANGED <<round, rmw, idLog>>
  /\ UNCHANGED cliVars

NextStart ==
  \/ \E c \in Callers, modelPreference \in StartInputs : HttpStart(c, modelPreference)
  \/ \E c \in Callers : HttpStartReply(c)
  \/ \E c \in Callers : Return(c)
  \/ \E k \in 1..MaxSpawns, pid \in Pids : SpawnedStart(k, pid)
  \/ \E s \in Sessions : findAvailablePort(s)
  \/ \E s \in Sessions : RunPersist(s)
  \/ \E s \in Sessions : RunListen(s)
  \/ \E pid \in Pids : ProcExit(pid)

SpecStart == Init /\ [][NextStart]_vars

\* the start endpoint takes a request of caller c in this step
StartAsked(c) == call[c].pc = "idle" /\ call'[c].op = "httpStart"

\* C17: a start request without a preference is answered 400 and spawns
\* nothing; one for a session that is alive at the check is answered
\* success:false and spawns nothing; any other spawns exactly one detached
\* node cli.js start that carries the preference and is answered success with
\* the session id of the preference and the port getSessionConfig gave at the
\* check; nothing else spawns a worker
C17_StartSpawnsOneUnlessAlive ==
  [][/\ \A c \in Callers :
          /\ StartAsked(c) =>
               LET s == SessionOfId(generateSessionId(call'[c].pref)) IN
               IF call'[c].pref = ""
               THEN /\ call'[c].pc = "done" /\ call'[c].reply.code = 400
                    /\ spawned' = spawned
               ELSE IF isSessionRunning(s)
               THEN /\ call'[c].pc = "done" /\ ~call'[c].reply.success
                    /\ spawned' = spawned
               ELSE /\ call'[c].pc = "wait"
                    /\ call'[c].port = SessionPort(sessionJson, descPort, s)
                    /\ Len(spawned') = Len(spawned) + 1
                    /\ SubSeq(spawned', 1, Len(spawned)) = spawned
                    /\ spawned'[Len(spawned')].CCR_MODEL_PREFERENCE = call'[c].pref
                    /\ spawned'[Len(spawned')].detached
          /\ (call[c].op = "httpStart" /\ call[c].pc = "wait" /\ call'[c].pc = "done") =>
               /\ call'[c].reply.success /\ call'[c].reply.code = 200
               /\ call'[c].sessionId = generateSessionId(call[c].pref)
               /\ call'[c].port = call[c].port
     /\ (\A c \in Callers : ~StartAsked(c)) => Len(spawned') = Len(spawned)]_vars

\* the endpoint has spawned one worker, the worker has started the session,
\* and a second request is refused because the session is alive
C17_Witness ==
  \E c \in Callers :
    /\ call[c].op = "httpStart" /\ call[c].pc = "done" /\ ~call[c].reply.success
    /\ call[c].reply.code = 200 /\ call[c].pref = "openrouter,gpt-4"
    /\ Len(spawned) = 1 /\ spawned[1].up
    /\ isSessionRunning(call[c].sid)

(* Session ids resolved while the host changes *)

\* getSessionConfig up to the file names: the id of the preference and the
\* directory and files it names, noted with whether the base port was free on
\* the host at the call
ResolveSession(modelPreference) ==
  /\ idLog' = idLog \cup
       {[modelPreference |-> modelPreference,
         sessionId |-> generateSessionId(modelPreference),
         paths |-> sessionPaths(generateSessionId(modelPreference)),
         baseFree |-> bound[BASE_PORT] = "free"]}
  /\ UNCHANGED <<sessionJson, pidFile, refCountFile, procs, call>>
  /\ UNCHANGED <<descPort, bound, boot, round, rmw, spawned>>
  /\ UNCHANGED cliVars
  /\ UNCHANGED monVars

NextId ==
  \/ \E modelPreference \in Preferences : ResolveSession(modelPreference)
  \/ \E pid \in Pids : PidReuse(pid, "running")
  \/ \E pid \in Pids : ProcExit(pid)
  \/ \E q \in Ports : PortTaken(q)
  \/ \E q \in Ports : PortFreed(q)

SpecId == Init /\ [][NextId]_vars

\* C18: the empty string and a string of spaces only resolve to "default"
C18_BlankIsDefault ==
  \A r \in idLog :
    r.modelPreference \in {"", "   "} => r.sessionId = DefaultId

SameFirstEight(p, q) == SubSeq(md5hex(p), 1, 8) = SubSeq(md5hex(q), 1, 8)

Undefined == <<"undefined">>

\* the preference strings handed to parseModelPreference in this model
ParseInputs ==
  {<<>>,
   <<" ", " ">>,
   <<"m">>,
   <<" ", "m", " ">>,
   <<"p", ",", "m">>,
   <<" ", "p", " ", ",", " ", "m">>,
   <<"p", "/", "m">>,
   <<"p", "/", "q", "/", "m">>,
   <<"p", "/", "q", ",", "m">>,
   <<"a", ",", "b", ",", "c">>}

\* String.prototype.trim, for the blank that is the space
RECURSIVE trimStart(_)
trimStart(str) ==
  IF str # <<>> /\ Head(str) = " " THEN trimStart(Tail(str)) ELSE str

RECURSIVE trimEnd(_)
trimEnd(str) ==
  IF str # <<>> /\ str[Len(str)] = " " THEN trimEnd(SubSeq(str, 1, Len(str) - 1)) ELSE str

trim(str) == trimEnd(trimStart(str))

\* String.prototype.split(sep) with a separator of one character: the pieces
\* between the separators, one piece for a string without separator
RECURSIVE split(_, _)
split(str, sep) ==
  IF \E i \in 1..Len(str) : str[i] = sep
  THEN LET i == CHOOSE k \in 1..Len(str) :
                  str[k] = sep /\ \A j \in 1..(k - 1) : str[j] # sep
       IN <<SubSeq(str, 1, i - 1)>> \o split(SubSeq(str, i + 1, Len(str)), sep)
  ELSE <<str>>

\* parseModelPreference
parseModelPreference(preference) ==
  IF preference = <<>> \/ trim(preference) = <<>>
  THEN [provider |-> Undefined, model |-> Undefined, raw |-> <<>>]
  ELSE LET pieces == split(preference, ",")
           parts  == [i \in 1..Len(pieces) |-> trim(pieces[i])]
       IN IF Len(parts) = 2
          THEN [provider |-> parts[1], model |-> parts[2], raw |-> preference]
          ELSE IF Len(parts) = 1
          THEN LET subParts == split(parts[1], "/")
               IN IF Len(subParts) = 2
                  THEN [provider |-> subParts[1], model |-> subParts[2], raw |-> preference]
                  ELSE [provider |-> Undefined, model |-> parts[1], raw |-> preference]
          ELSE [provider |-> Undefined, model |-> Undefined, raw |-> preference]

\* a caller parses a preference string
ParsePreference(preference) ==
  /\ parsed' = parsed \cup {[input |-> preference, result |-> parseModelPreference(preference)]}
  /\ UNCHANGED <<waiter, service, peer>>
  /\ UNCHANGED <<sessionJson, pidFile, refCountFile, procs, call>>
  /\ UNCHANGED <<descPort, bound, boot, round, rmw, spawned, idLog>>
  /\ UNCHANGED monVars

NextParse == \E preference \in ParseInputs : ParsePreference(preference)

SpecParse == Init /\ [][NextParse]_vars

\* how often character ch occurs in str
Occurrences(str, ch) == Cardinality({i \in 1..Len(str) : str[i] = ch})

\* C21: a string with exactly two comma-separated parts gives provider and
\* model; otherwise one part with exactly one slash gives provider and model;
\* every other string gives no provider and the whole string, surrounding
\* blanks aside, as the model (for a blank string: no model or an empty one)
C21_ParseRules ==
  \A r \in parsed :
    LET commas  == Occurrences(r.input, ",")
        slashes == Occurrences(r.input, "/")
    IN IF trim(r.input) = <<>>
       THEN r.result.provider = Undefined /\ r.result.model \in {Undefined, <<>>}
       ELSE IF commas = 1 \/ (commas = 0 /\ slashes = 1)
       THEN r.result.provider # Undefined /\ r.result.model # Undefined
       ELSE r.result.provider = Undefined /\ r.result.model = trim(r.input)

(* waitForService *)

InTimeAlways(elapsed) == TRUE

\* the loop condition Date.now() - startTime < timeout
InTime(elapsed) == elapsed < WaitTimeout

\* a command calls waitForService(timeout, initialDelay, sessionConfig)
WaitBegin(s) ==
  /\ waiter.pc = "idle"
  /\ waiter' = [IdleWaiter EXCEPT !.pc = "grace", !.sid = s]
  /\ UNCHANGED <<sessionJson, pidFile, refCountFile, procs, call>>
  /\ UNCHANGED <<descPort, bound, boot, round, rmw, spawned, idLog>>
  /\ UNCHANGED <<parsed, service, peer>>
  /\ UNCHANGED monVars

\* the initial delay is over: startTime = Date.now()
WaitGraceOver ==
  /\ waiter.pc = "grace"
  /\ waiter' = [waiter EXCEPT !.pc = "poll", !.elapsed = 0]
  /\ UNCHANGED <<sessionJson, pidFile, refCountFile, procs, call>>
  /\ UNCHANGED <<descPort, bound, boot, round, rmw, spawned, idLog>>
  /\ UNCHANGED <<parsed, service, peer>>
  /\ UNCHANGED monVars

\* the loop test and, inside the loop, the poll with isSessionRunning
WaitPoll ==
  /\ waiter.pc = "poll"
  /\ waiter' =
       IF ~InTime(waiter.elapsed) THEN [waiter EXCEPT !.pc = "done", !.result = FALSE]
       ELSE IF isSessionRunning(waiter.sid) THEN [waiter EXCEPT !.pc = "settle"]
       ELSE [waiter EXCEPT !.pc = "sleep"]
  /\ UNCHANGED <<sessionJson, pidFile, refCountFile, procs, call>>
  /\ UNCHANGED <<descPort, bound, boot, round, rmw, spawned, idLog>>
  /\ UNCHANGED <<parsed, service, peer>>
  /\ UNCHANGED monVars

\* the 100 ms timer fires, on time or late; readings of the clock beyond the
\* timeout are not told apart
WaitSleepOver(late) ==
  /\ waiter.pc = "sleep"
  /\ waiter' = [waiter EXCEPT !.pc = "poll",
                              !.elapsed = IF @ + 1 + late > WaitTimeout + 1
                                          THEN WaitTimeout + 1 ELSE @ + 1 + late]
  /\ UNCHANGED <<sessionJson, pidFile, refCountFile, procs, call>>
  /\ UNCHANGED <<descPort, bound, boot, round, rmw, spawned, idLog>>
  /\ UNCHANGED <<parsed, service, peer>>
  /\ UNCHANGED monVars

\* the 500 ms after a poll that found the session: return true
WaitSettleOver ==
  /\ waiter.pc = "settle"
  /\ waiter' = [waiter EXCEPT !.pc = "done", !.result = TRUE]
  /\ UNCHANGED <<sessionJson, pidFile, refCountFile, procs, call>>
  /\ UNCHANGED <<descPort, bound, boot, round, rmw, spawned, idLog>>
  /\ UNCHANGED <<parsed, service, peer>>
  /\ UNCHANGED monVars

\* the command goes on with the answer
WaitReturn ==
  /\ waiter.pc = "done"
  /\ waiter' = IdleWaiter
  /\ UNCHANGED <<sessionJson, pidFile, refCountFile, procs, call>>
  /\ UNCHANGED <<descPort, bound, boot, round, rmw, spawned, idLog>>
  /\ UNCHANGED <<parsed, service, peer>>
  /\ UNCHANGED monVars

\* the steps of waitForService: its timers and its polls
WaitStep ==
  \/ WaitGraceOver
  \/ WaitPoll
  \/ \E late \in 0..1 : WaitSleepOver(late)
  \/ WaitSettleOver

\* a command waits for a session while workers start it, fail or exit
NextWait ==
  \/ \E s \in Sessions : WaitBegin(s)
  \/ WaitStep
  \/ WaitReturn
  \/ \E s \in Sessions, pid \in Pids : CliStart(s, pid, "running")
  \/ \E s \in Sessions : findAvailablePort(s)
  \/ \E s \in Sessions : RunPersist(s)
  \/ \E s \in Sessions : RunListen(s)
  \/ \E pid \in Pids : ProcExit(pid)

SpecWait == Init /\ [][NextWait]_vars

\* the timers of the event loop fire and the polls answer
SpecWaitLive == SpecWait /\ WF_vars(WaitStep)

\* what a step of waitForService may do with its answer
WaitAnswers ==
  /\ (waiter.pc # "settle" /\ waiter'.pc = "settle") =>
       (waiter.pc = "poll" /\ isSessionRunning(waiter.sid))
  /\ (waiter.pc # "done" /\ waiter'.pc = "done") =>
       /\ waiter'.result \in BOOLEAN
       /\ waiter'.result = (waiter.pc = "settle")
       /\ ~waiter'.result => (waiter.pc = "poll" /\ waiter.elapsed >= WaitTimeout)

\* C22: waitForService answers true only after a poll that found the session
\* alive, answers false only at a loop test that finds the timeout elapsed,
\* and whatever the workers do it does answer
C22_WaitAlwaysAnswers ==
  /\ [][WaitAnswers]_vars
  /\ (waiter.pc = "grace") ~> (waiter.pc = "done")

\* a wait has timed out on one session although the other session is alive
C22_Witness ==
  /\ waiter.pc = "done" /\ ~waiter.result /\ waiter.elapsed >= WaitTimeout
  /\ ~isSessionRunning(waiter.sid)
  /\ \E s \in Sessions : isSessionRunning(s)

(* The life of a session *)

\* sessions are started through the start endpoint and stopped through the
\* stop endpoint and ccr stop
NextLife ==
  \/ \E c \in Callers, modelPreference \in StartInputs : HttpStart(c, modelPreference)
  \/ \E c \in Callers : HttpStartReply(c)
  \/ \E k \in 1..MaxSpawns, pid \in Pids : SpawnedStart(k, pid)
  \/ \E s \in Sessions : findAvailablePort(s)
  \/ \E s \in Sessions : RunPersist(s)
  \/ \E s \in Sessions : RunListen(s)
  \/ \E c \in Callers, s \in Sessions : HttpStopList(c, s)
  \/ \E c \in Callers : HttpStopTerm(c)
  \/ \E c \in Callers : HttpStopAfterWait(c)
  \/ \E c \in Callers, s \in Sessions : CliStopMain(c, s)
  \/ \E c \in Callers : CliStopCase(c)
  \/ \E c \in Callers : Return(c)
  \/ \E pid \in Pids : ProcExit(pid)

SpecLife == Init /\ [][NextLife]_vars

\* a worker for session s has been spawned and has not written its pid yet
StartPending(s) ==
  \/ boot[s].pc # "none"
  \/ \E k \in 1..Len(spawned) :
       ~spawned[k].up /\ SessionOfId(generateSessionId(spawned[k].CCR_MODEL_PREFERENCE)) = s

\* a stop of session s has sent its signal and has not cleaned up yet
StopPending(s) ==
  \E c \in Callers : call[c].op \in StopOps /\ call[c].sid = s /\ call[c].pc = "wait"

\* where session s is in NotRunning -> Starting -> Running -> Stopping
Phase(s) ==
  IF StopPending(s) THEN "Stopping"
  ELSE IF isSessionRunning(s) THEN "Running"
  ELSE IF StartPending(s) THEN "Starting"
  ELSE "NotRunning"

\* a worker for session s is spawned in this step
StartPerformed(s) ==
  /\ Len(spawned') = Len(spawned) + 1
  /\ SessionOfId(generateSessionId(spawned'[Len(spawned')].CCR_MODEL_PREFERENCE)) = s

\* the step is a process that exits on its own, no command being involved
ExitsAlone == procs' # procs /\ call' = call /\ spawned' = spawned

\* C23: no worker is spawned for a session that is Starting or Running, and
\* a Running session does not become NotRunning except through Stopping
\* (a worker that exits on its own aside)
C23_LifecycleOrder ==
  [][\A s \in Sessions :
       /\ StartPerformed(s) => Phase(s) = "NotRunning"
       /\ (Phase(s) = "Running" /\ ~ExitsAlone) => Phase(s)' # "NotRunning"]_vars

-----------------------------------------------------------------------------
(* Claims on failing persistence *)

DiskStarts == 2
DiskMaxUpdates == 3

DiskUpdates == {u \in Updates : u.keys # {"status", "duration"}}
DiskResponses == {r \in Responses : r.model = "m1"}

\* requests start, are updated and end, metrics are reset once no request is
\* pending, one subscriber listens unfiltered, and file writes and directory
\* creation fail and recover at any moment
NextDisk ==
  \/ nextId < DiskStarts /\ startRequest(NoSession)
  \/ \E id \in DOMAIN requests, u \in DiskUpdates :
       /\ requests[id].status = "pending" /\ TotalUpdates < DiskMaxUpdates
       /\ UpdateRequest(id, u)
  \/ \E id \in DOMAIN requests, resp \in DiskResponses :
       /\ requests[id].status = "pending" /\ TotalUpdates < DiskMaxUpdates
       /\ EndRequest(id, resp, FALSE)
  \/ /\ sessionMetrics # EmptyMap
     /\ \A id \in DOMAIN requests : requests[id].status # "pending"
     /\ resetMetrics(NoSession)
  \/ subState["w1"] = "new" /\ streamLogs("w1", NoSession)
  \/ DiskBreaks
  \/ DiskRepaired
  \/ HomeLocked
  \/ HomeUnlocked

SpecDisk == Init /\ [][NextDisk]_vars

\* C24: an operation whose write to the metrics file or to the per-day log
\* fails, the creation of the target directory included, raises nothing to
\* its caller, and every change it makes to a request is broadcast to the
\* unfiltered subscriber
C24_PersistenceFailuresAreSwallowed ==
  [][ /\ ~raised'
      /\ (requests' # requests /\ listeners["request:update"] # <<>>)
            => frames'["w1"] # frames["w1"] ]_vars

-----------------------------------------------------------------------------
(* Claims on restart *)

\* a service started outside the sessions has saved its pid in PID_FILE
ServiceStart(pid) ==
  /\ procs[pid] = "none" /\ service.pidFile = "absent"
  /\ procs' = [procs EXCEPT ![pid] = "running"]
  /\ service' = [service EXCEPT !.pidFile = pid]
  /\ UNCHANGED <<sessionJson, pidFile, refCountFile, call>>
  /\ UNCHANGED <<descPort, bound, boot, round, rmw, spawned, idLog>>
  /\ UNCHANGED <<parsed, waiter, peer>>
  /\ UNCHANGED monVars

\* ccr restart with modelPreference in its environment: "restart" is not
\* among the session-aware commands of main (cli.ts:79), so sessionConfig is
\* null and the default branch runs (cli.ts:461-493): process.kill of the pid
\* in PID_FILE, cleanupPidFile and the unlink of REFERENCE_COUNT_FILE, with
\* cleanupPidFile alone when the read or the signal throws; then one detached
\* node cli.js start, which inherits the environment
CliRestartCase(modelPreference) ==
  LET pid == service.pidFile
  IN /\ Len(spawned) < MaxSpawns
     /\ IF pid # "absent" /\ KillOutcome(pid) = "ok"
        THEN /\ procs' = AfterSigterm(procs, pid)
             /\ service' = [pidFile |-> "absent", refCount |-> FALSE]
        ELSE /\ service' = [service EXCEPT !.pidFile = "absent"]
             /\ UNCHANGED procs
     /\ spawned' = Append(spawned,
          [cmd |-> <<"node", "cli.js", "start">>, detached |-> TRUE,
           CCR_MODEL_PREFERENCE |-> modelPreference, up |-> FALSE])
     /\ UNCHANGED <<sessionJson, pidFile, refCountFile, call>>
     /\ UNCHANGED <<descPort, bound, boot, round, rmw, idLog>>
     /\ UNCHANGED <<parsed, waiter, peer>>
     /\ UNCHANGED monVars

\* sessions and a service outside the sessions start and exit, and ccr
\* restart runs in terminals with and without a preference
NextRestart ==
  \/ \E s \in Sessions, pid \in Pids : WorkerStart(s, pid, "running")
  \/ \E pid \in Pids : ServiceStart(pid)
  \/ \E modelPreference \in StartInputs : CliRestartCase(modelPreference)
  \/ \E k \in 1..MaxSpawns, pid \in Pids : SpawnedStart(k, pid)
  \/ \E s \in Sessions : findAvailablePort(s)
  \/ \E s \in Sessions : RunPersist(s)
  \/ \E s \in Sessions : RunListen(s)
  \/ \E pid \in Pids : ProcExit(pid)

SpecRestart == Init /\ [][NextRestart]_vars

\* the session a restart is for: the one of the preference it hands to the
\* node cli.js start it spawns
RestartedSession ==
  SessionOfId(generateSessionId(spawned'[Len(spawned')].CCR_MODEL_PREFERENCE))

\* C25: a restart spawns its one node cli.js start after the stop attempt,
\* with the pid file of the session cleared and a live worker of the
\* session signalled
C25_RestartStopsThenStarts ==
  [][Len(spawned') = Len(spawned) + 1 =>
       /\ pidFile'[RestartedSession] = "absent"
       /\ \A pid \in Pids :
            (pidFile[RestartedSession] = pid /\ procs[pid] = "running")
              => procs'[pid] # "running"]_vars

-----------------------------------------------------------------------------
(* Claims on descriptors that are absent or unparsable *)

\* writeFileSync of saveSessionConfig is not atomic: a reader in another
\* process may find session.json with only part of the new content
RunPersistPartial(s) ==
  /\ boot[s].pc = "persist"
  /\ sessionJson[s] # "corrupt"
  /\ sessionJson' = [sessionJson EXCEPT ![s] = "corrupt"]
  /\ descPort' = [descPort EXCEPT ![s] = boot[s].port]
  /\ UNCHANGED <<pidFile, refCountFile, procs, call, bound, boot>>
  /\ UNCHANGED monVars
  /\ UNCHANGED auxVars

\* session.json is removed or truncated from outside the program (a cleanup
\* of the sessions directory, a rewrite cut short by a full disk)
DescriptorDamaged(s, state) ==
  /\ sessionJson[s] = "valid"
  /\ sessionJson' = [sessionJson EXCEPT ![s] = state]
  /\ descPort' = [descPort EXCEPT ![s] = IF state = "absent" THEN 0 ELSE @]
  /\ UNCHANGED <<pidFile, refCountFile, procs, call, bound, boot>>
  /\ UNCHANGED monVars
  /\ UNCHANGED auxVars

\* mutant of Listed: the descriptor only has to exist
ListedUnparsed(s) == sessionJson[s] # "absent" /\ isSessionRunning(s)

\* one turn of getAllActiveSessions' loop: session.json exists, parses, and
\* isSessionRunning answers true
Listed(s) == sessionJson[s] = "valid" /\ isSessionRunning(s)

\* fs.readdirSync(SESSIONS_DIR)
SessionDirs == <<DefaultSession, "s1">>

\* a caller asks for the list of active sessions: the directories are read
GetAllActiveSessionsCall(c) ==
  /\ call[c].pc = "idle"
  /\ call' = [call EXCEPT ![c] =
       [IdleCall EXCEPT !.op = "getAllActiveSessions", !.pc = "loop", !.cursor = 1]]
  /\ UNCHANGED <<sessionJson, pidFile, refCountFile, procs>>
  /\ UNCHANGED monVars
  /\ UNCHANGED regVars

\* the loop looks at the next directory, and returns after the last
GetAllActiveSessionsStep(c) ==
  LET k == call[c].cursor
  IN /\ call[c].op = "getAllActiveSessions" /\ call[c].pc = "loop"
     /\ call' = [call EXCEPT ![c] =
          [@ EXCEPT !.sent = IF Listed(SessionDirs[k]) THEN Append(@, SessionDirs[k]) ELSE @,
                    !.cursor = k + 1,
                    !.pc = IF k = Len(SessionDirs) THEN "done" ELSE "loop"]]
     /\ UNCHANGED <<sessionJson, pidFile, refCountFile, procs>>
     /\ UNCHANGED monVars
     /\ UNCHANGED regVars

\* workers start while descriptors are read, half written, damaged and listed
NextDesc ==
  \/ \E c \in Callers, s \in Sessions : GetSessionConfigCall(c, s)
  \/ \E c \in Callers : GetAllActiveSessionsCall(c)
  \/ \E c \in Callers : GetAllActiveSessionsStep(c)
  \/ \E c \in Callers : Return(c)
  \/ \E s \in Sessions, pid \in Pids : CliStart(s, pid, "running")
  \/ \E s \in Sessions : findAvailablePort(s)
  \/ \E s \in Sessions : RunPersistPartial(s)
  \/ \E s \in Sessions : RunPersist(s)
  \/ \E s \in Sessions : RunListen(s)
  \/ \E s \in Sessions, state \in {"absent", "corrupt"} : DescriptorDamaged(s, state)
  \/ \E pid \in Pids : ProcExit(pid)

SpecDesc == Init /\ [][NextDesc]_vars

\* C26: getSessionConfig for a session without session.json answers with no
\* port assigned, a value no persisted descriptor can hold
C26_NoPortWithoutDescriptor ==
  [][\A c \in Callers, s \in Sessions :
       (ReadsConfig(c, s) /\ sessionJson[s] = "absent") => call'[c].port \notin Ports]_vars

\* C27: getSessionConfig for a session whose session.json does not parse
\* returns, with the base port, and leaves the file as it is
C27_UnparsableIsAbsent ==
  [][\A c \in Callers, s \in Sessions :
       (ReadsConfig(c, s) /\ sessionJson[s] = "corrupt") =>
         /\ call'[c].pc = "done"
         /\ call'[c].port = BASE_PORT
         /\ sessionJson'[s] = "corrupt"
         /\ descPort'[s] = descPort[s]]_vars

\* getSessionConfig has answered for a session whose session.json is half
\* written with a port other than the base port
C27_Witness ==
  \E c \in Callers :
    /\ call[c].op = "getSessionConfig" /\ call[c].pc = "done"
    /\ sessionJson[call[c].sid] = "corrupt"
    /\ descPort[call[c].sid] \notin {0, BASE_PORT}
    /\ boot[call[c].sid].pc = "persist"
    /\ call[c].port = BASE_PORT

\* C28: each turn of getAllActiveSessions' loop adds the session it looks
\* at exactly when its session.json parses and its pid file names a live
\* process; a session whose session.json is missing or unparsable is passed
\* over without an error, its worker alive or not, and the sessions added
\* before stay in the list
C28_ListsParsableAndAlive ==
  [][\A c \in Callers :
       (call[c].op = "getAllActiveSessions" /\ call[c].pc = "loop" /\ call'[c] # call[c]) =>
         LET s == SessionDirs[call[c].cursor]
             alive == pidFile[s] # "absent" /\ procs[pidFile[s]] # "none"
         IN /\ call'[c].pc \in {"loop", "done"}
            /\ call'[c].sent = IF sessionJson[s] = "valid" /\ alive
                               THEN Append(call[c].sent, s) ELSE call[c].sent]_vars

\* the list came back with the second session alone while the worker of the
\* first is alive behind a session.json that does not parse
C28_Witness ==
  \E c \in Callers :
    /\ call[c].op = "getAllActiveSessions" /\ call[c].pc = "done"
    /\ call[c].sent = <<"s1">>
    /\ sessionJson[DefaultSession] = "corrupt"
    /\ pidFile[DefaultSession] # "absent" /\ procs[pidFile[DefaultSession]] = "running"

-----------------------------------------------------------------------------
(* Claims on pid reuse *)

\* workers start and exit, the OS hands their pids to unrelated processes of
\* the same user, and callers ask for liveness, for the list, and for a stop
NextReuse ==
  \/ \E s \in Sessions, pid \in Pids : WorkerStart(s, pid, "running")
  \/ \E pid \in Pids : ProcExit(pid)
  \/ \E pid \in Pids : PidReuse(pid, "unrelated")
  \/ \E c \in Callers, s \in Sessions : IsSessionRunningCall(c, s)
  \/ \E c \in Callers : GetAllActiveSessionsCall(c)
  \/ \E c \in Callers : GetAllActiveSessionsStep(c)
  \/ \E c \in Callers, s \in Sessions : HttpStopList(c, s)
  \/ \E c \in Callers : HttpStopTerm(c)
  \/ \E c \in Callers : HttpStopAfterWait(c)
  \/ \E c \in Callers : Return(c)

SpecReuse == Init /\ [][NextReuse]_vars

\* the pid file of s names a pid that some process has, worker or not
PidIsLive(s) == pidFile[s] \in Pids /\ procs[pidFile[s]] # "none"

\* C29: isSessionRunning answers true exactly when the pid file names a pid
\* some live process has, worker of the session or not; such a session is
\* put on the list of active sessions, and the stop endpoint sends its
\* SIGTERM to whatever process has the pid
C29_LivenessIsPidLiveness ==
  [][\A c \in Callers :
       /\ (Returned(c) /\ call'[c].op = "isSessionRunning")
            => call'[c].reply.success = PidIsLive(call'[c].sid)
       /\ (call[c].op = "getAllActiveSessions" /\ call[c].pc = "loop" /\ call'[c] # call[c]
           /\ sessionJson[SessionDirs[call[c].cursor]] = "valid"
           /\ PidIsLive(SessionDirs[call[c].cursor]))
            => call'[c].sent = Append(call[c].sent, SessionDirs[call[c].cursor])
       /\ (call[c].op = "httpStop" /\ call[c].pc = "term" /\ call'[c] # call[c]
           /\ PidIsLive(call[c].sid))
            => /\ call'[c].pid = pidFile[call[c].sid]
               /\ call'[c].sent = <<<<"SIGTERM", "ok">>>>]_vars

\* the stop endpoint found a session on the list whose pid now belongs to an
\* unrelated process, and has sent that process SIGTERM
C29_Witness ==
  \E c \in Callers :
    /\ call[c].op = "httpStop" /\ call[c].pc = "wait"
    /\ call[c].sent = <<<<"SIGTERM", "ok">>>>
    /\ pidFile[call[c].sid] = call[c].pid
    /\ procs[call[c].pid] = "unrelated"

-----------------------------------------------------------------------------
(* Claims on the per-day log *)

LogMaxUpdates == 2

LogUpdates == {u \in Updates : u.keys = {"status"} \/ u.keys = {"model"}}

\* requests start, past the capacity, and pending ones are updated and ended
NextLog ==
  \/ nextId < MaxStarts /\ startRequest(NoSession)
  \/ \E id \in DOMAIN requests, u \in LogUpdates :
       /\ requests[id].status = "pending" /\ TotalUpdates < LogMaxUpdates
       /\ UpdateRequest(id, u)
  \/ \E id \in DOMAIN requests, resp \in CapResponses :
       /\ requests[id].status = "pending" /\ TotalUpdates < LogMaxUpdates
       /\ EndRequest(id, resp, FALSE)

SpecLog == Init /\ [][NextLog]_vars

Terminal == {"success", "error"}

\* the lines of the per-day log that hold entry id
LinesOf(log, id) == Cardinality({k \in 1..Len(log) : log[k].entry.id = id})

\* C30: an update that makes an entry success or error appends the entry, as
\* updated, to the per-day log in the same step, and once; any other update
\* appends nothing; an eviction appends each evicted entry once more, so that
\* an entry completed and later evicted has two lines
C30_TerminalUpdatesAreLogged ==
  [][/\ \A id \in DOMAIN requests \cap DOMAIN requests' :
          requests'[id] # requests[id] =>
            diskLog' = IF requests'[id].status \in Terminal
                       THEN Append(diskLog, [via |-> "updateRequest",
                                             day |-> now \div DayLen,
                                             entry |-> requests'[id]])
                       ELSE diskLog
     /\ \A id \in DOMAIN requests \ DOMAIN requests' :
          /\ LinesOf(diskLog', id) = LinesOf(diskLog, id) + 1
          /\ requests[id].status \in Terminal => LinesOf(diskLog', id) = 2]_vars

\* an entry that completed and was evicted afterwards has its two lines, the
\* first written by updateRequest and the second by archiveOldLogs
C30_Witness ==
  \E k, j \in 1..Len(diskLog) :
    /\ k < j /\ diskLog[k].entry.id = diskLog[j].entry.id
    /\ diskLog[k].via = "updateRequest" /\ diskLog[j].via = "archiveOldLogs"
    /\ diskLog[k].entry.id \notin DOMAIN requests

-----------------------------------------------------------------------------
(* Claims on endRequest *)

EndStarts == 2
EndMaxTime == 1
EndMaxUpdates == 2

\* requests start, and any request in memory is ended, once or again, with
\* or without an error, as time passes
NextEnd ==
  \/ Tick(EndMaxTime)
  \/ nextId < EndStarts /\ startRequest(NoSession)
  \/ \E id \in DOMAIN requests, resp \in Responses, err \in BOOLEAN :
       TotalUpdates < EndMaxUpdates /\ EndRequest(id, resp, err)

SpecEnd == Init /\ [][NextEnd]_vars

\* C31: an endRequest on a request in memory leaves it with status error
\* if an error was passed and success otherwise, never pending, with the
\* time since its start timestamp as duration, not negative, and emits
\* metrics:update, request:update and request:end in that order
C31_EndRequestCompletes ==
  [][\A id \in DOMAIN requests, resp \in Responses, err \in BOOLEAN :
       EndRequest(id, resp, err) =>
         /\ id \in DOMAIN requests'
         /\ requests'[id].status = IF err THEN "error" ELSE "success"
         /\ requests'[id].duration = now - requests[id].timestamp
         /\ requests'[id].duration >= 0
         /\ emitted' = <<"metrics:update", "request:update", "request:end">>]_vars

\* a request was ended with an error some time after it started
C31_Witness ==
  /\ emitted = <<"metrics:update", "request:update", "request:end">>
  /\ \E id \in DOMAIN requests :
       /\ requests[id].status = "error" /\ requests[id].error
       /\ requests[id].duration > 0
       /\ requests[id].duration = now - requests[id].timestamp

-----------------------------------------------------------------------------
(* Claims on clearLogs and resetMetrics *)

ClearStarts == 2
ClearMaxUpdates == 2

\* requests of two sessions start and end, and logs are cleared and metrics
\* reset, for one session or for all
NextClear ==
  \/ \E sid \in SessionInputs : nextId < ClearStarts /\ startRequest(sid)
  \/ \E id \in DOMAIN requests, resp \in CapResponses :
       /\ requests[id].status = "pending" /\ TotalUpdates < ClearMaxUpdates
       /\ EndRequest(id, resp, FALSE)
  \/ \E sid \in Sessions \cup {NoSession} : requests # EmptyMap /\ clearLogs(sid)
  \/ \E sid \in Sessions \cup {NoSession} : sessionMetrics # EmptyMap /\ resetMetrics(sid)

SpecClear == Init /\ [][NextClear]_vars

\* map m without the keys in gone
Restrict(m, gone) == [k \in DOMAIN m \ gone |-> m[k]]

\* C32: clearLogs(s) removes the entries of session s and no other, and
\* changes no metrics; resetMetrics(s) removes the metrics of session s and
\* no other, and changes no entry; without a filter each removes all
C32_ClearAndResetAreScoped ==
  [][\A sid \in Sessions \cup {NoSession} :
       /\ clearLogs(sid) =>
            /\ requests' = Restrict(requests,
                 {i \in DOMAIN requests : sid = NoSession \/ requests[i].sessionId = sid})
            /\ sessionMetrics' = sessionMetrics
       /\ resetMetrics(sid) =>
            /\ sessionMetrics' = Restrict(sessionMetrics,
                 {s \in DOMAIN sessionMetrics : sid = NoSession \/ s = sid})
            /\ requests' = requests]_vars

\* the logs of one session were cleared: the entry of the other session is
\* still there, and so are the metrics of both
C32_Witness ==
  /\ emitted = <<"logs:cleared">>
  /\ requests # EmptyMap
  /\ \A i \in DOMAIN requests : requests[i].sessionId = DefaultSession
  /\ DOMAIN sessionMetrics = {DefaultSession, "s1"}

-----------------------------------------------------------------------------
(* Claims on the metrics file *)

LoadStarts == 2
LoadMaxUpdates == 2

\* the worker ends and a new one is started: new MonitoringService() begins
\* with no requests and no listeners and loads the metrics file
Construct ==
  /\ requests' = EmptyMap
  /\ sessionMetrics' = loadPersistedMetrics(metricsFile)
  /\ listeners' = [e \in Events |-> <<>>]
  /\ subState' = [w \in Sockets |-> "new"]
  /\ subFilter' = [w \in Sockets |-> NoSession]
  /\ frames' = [w \in Sockets |-> <<>>]
  /\ raised' = FALSE
  /\ emitted' = <<>>
  /\ UNCHANGED <<now, nextId, metricsFile, diskLog, diskOk, dirOk, metricsDir>>
  /\ UNCHANGED sessVars

\* metrics.json is removed, or left cut short by a writeFileSync that did
\* not finish (the worker was killed, the disk ran full)
MetricsFileDamaged(state) ==
  /\ metricsFile.state = "written"
  /\ metricsFile' = [state |-> state,
                     sessions |-> IF state = "absent" THEN <<>> ELSE metricsFile.sessions]
  /\ UNCHANGED <<now, nextId, requests, sessionMetrics, diskLog, diskOk, dirOk,
                 metricsDir, raised, emitted, listeners, subState, subFilter, frames>>
  /\ UNCHANGED sessVars

\* requests of two sessions start and end and metrics are reset while the
\* disk fails and recovers, the file is damaged, and the worker is replaced
NextLoad ==
  \/ \E sid \in SessionInputs : nextId < LoadStarts /\ startRequest(sid)
  \/ \E id \in DOMAIN requests, resp \in AvgResponses, err \in BOOLEAN :
       /\ requests[id].status = "pending" /\ TotalUpdates < LoadMaxUpdates
       /\ EndRequest(id, resp, err)
  \/ \E sid \in Sessions : sid \in DOMAIN sessionMetrics /\ resetMetrics(sid)
  \/ DiskBreaks
  \/ DiskRepaired
  \/ \E state \in {"absent", "cut"} : MetricsFileDamaged(state)
  \/ Construct

SpecLoad == Init /\ [][NextLoad]_vars

\* C33: what loadPersistedMetrics reads from a file persistMetrics has just
\* written is the metrics map in memory at that write, session by session;
\* a service constructed over a written file starts with the metrics of the
\* file, one constructed over a missing or unparsable file starts with none,
\* and neither construction fails
C33_LoadsWhatWasPersisted ==
  [][/\ (metricsFile' # metricsFile /\ metricsFile'.state = "written")
          => loadPersistedMetrics(metricsFile') = sessionMetrics'
     /\ Construct =>
          /\ ~raised'
          /\ DOMAIN sessionMetrics' =
               IF metricsFile.state = "written"
               THEN {metricsFile.sessions[k].sessionId : k \in 1..Len(metricsFile.sessions)}
               ELSE {}
          /\ \A k \in 1..Len(metricsFile.sessions) :
               metricsFile.state = "written" =>
                 sessionMetrics'[metricsFile.sessions[k].sessionId] = metricsFile.sessions[k]]_vars

\* a new service has loaded the metrics of two sessions from the file, with
\* an error counted in one of them
C33_Witness ==
  /\ emitted = <<>> /\ requests = EmptyMap
  /\ metricsFile.state = "written"
  /\ DOMAIN sessionMetrics = {DefaultSession, "s1"}
  /\ \E s \in DOMAIN sessionMetrics : sessionMetrics[s].errors = 1
  /\ \A s \in DOMAIN sessionMetrics : sessionMetrics[s].requestCount = 1

-----------------------------------------------------------------------------
(* Claims on the counters of a session *)

CountStarts == 1
CountMaxUpdates == 2
CountMaxLines == 1

\* requests of two sessions start, any request in memory is updated and
\* ended, as often as the bounds allow, and metrics are reset
NextCount ==
  \/ \E sid \in SessionInputs : nextId < CountStarts /\ startRequest(sid)
  \/ \E id \in DOMAIN requests, u \in Updates :
       /\ TotalUpdates < CountMaxUpdates
       /\ Completes(u) => Len(diskLog) < CountMaxLines
       /\ UpdateRequest(id, u)
  \/ \E id \in DOMAIN requests, resp \in Responses, err \in BOOLEAN :
       /\ TotalUpdates < CountMaxUpdates /\ Len(diskLog) < CountMaxLines
       /\ EndRequest(id, resp, err)
  \/ \E sid \in Sessions \cup {NoSession} : sessionMetrics # EmptyMap /\ resetMetrics(sid)

SpecCount == Init /\ [][NextCount]_vars

\* C34: in the metrics of every session the errors, the sum of the providers
\* counts and the sum of the models counts are at most requestCount; as long
\* as the metrics of a session are not reset, its requestCount, errors and
\* token totals do not decrease
C34_CountersBoundedAndMonotone ==
  [][\A s \in DOMAIN sessionMetrics' :
       LET m == sessionMetrics'[s]
       IN /\ m.errors <= m.requestCount
          /\ SumSet(Providers, m.providers) <= m.requestCount
          /\ SumSet(Models, m.models) <= m.requestCount
          /\ s \in DOMAIN sessionMetrics =>
               /\ m.requestCount >= sessionMetrics[s].requestCount
               /\ m.errors >= sessionMetrics[s].errors
               /\ m.totalInputTokens >= sessionMetrics[s].totalInputTokens
               /\ m.totalOutputTokens >= sessionMetrics[s].totalOutputTokens]_vars

\* a session has counted two updates of one request, the second of them an
\* error, and the model of the request both times
C34_Witness ==
  \E s \in DOMAIN sessionMetrics :
    /\ sessionMetrics[s].requestCount = 2 /\ sessionMetrics[s].errors = 1
    /\ SumSet(Models, sessionMetrics[s].models) = 2
    /\ SumSet(Providers, sessionMetrics[s].providers) = 0

\* the metrics of session s before a step, those of a new session if none
MetricsBefore(s) ==
  IF s \in DOMAIN sessionMetrics THEN sessionMetrics[s]
  ELSE [requestCount |-> 0, totalInputTokens |-> 0, totalOutputTokens |-> 0,
        providers |-> [p \in Providers |-> 0], models |-> [m \in Models |-> 0]]

\* the step counts entry id once more in the metrics of its session, with the
\* tokens, the provider and the model the entry holds after the step, and
\* leaves the metrics of the other sessions alone
Counted(id) ==
  LET s   == requests[id].sessionId
      r   == requests'[id]
      old == MetricsBefore(s)
      new == sessionMetrics'[s]
  IN /\ DOMAIN sessionMetrics' = DOMAIN sessionMetrics \cup {s}
     /\ \A t \in DOMAIN sessionMetrics \ {s} : sessionMetrics'[t] = sessionMetrics[t]
     /\ new.requestCount = old.requestCount + 1
     /\ new.totalInputTokens = old.totalInputTokens + r.inputTokens
     /\ new.totalOutputTokens = old.totalOutputTokens + r.outputTokens
     /\ \A p \in Providers :
          new.providers[p] = old.providers[p] + (IF r.provider = p THEN 1 ELSE 0)
     /\ \A m \in Models :
          new.models[m] = old.models[m] + (IF r.model = m THEN 1 ELSE 0)

\* C35: every updateRequest applied to an entry in memory, directly or
\* through endRequest, adds one to the requestCount of the entry's session
\* and adds the entry's tokens, provider and model again, whether or not the
\* entry was counted before; startRequest changes no metrics
C35_CountsEveryUpdate ==
  [][/\ \A sid \in SessionInputs : startRequest(sid) => sessionMetrics' = sessionMetrics
     /\ \A id \in DOMAIN requests, u \in Updates : UpdateRequest(id, u) => Counted(id)
     /\ \A id \in DOMAIN requests, resp \in Responses, err \in BOOLEAN :
          EndRequest(id, resp, err) => Counted(id)]_vars

\* the only request issued was ended and then updated, and is counted twice,
\* with its tokens, provider and model
C35_Witness ==
  /\ nextId = 1
  /\ \E s \in DOMAIN sessionMetrics :
       /\ sessionMetrics[s].requestCount = 2
       /\ sessionMetrics[s].totalInputTokens = 2
       /\ SumSet(Providers, sessionMetrics[s].providers) = 2
       /\ SumSet(Models, sessionMetrics[s].models) = 2

-----------------------------------------------------------------------------
(* Claims on updates and ends of requests that are not in memory *)

\* startRequest calls and updateRequest applications in the runs that address
\* requests by ids that are not in memory
GoneStarts == 4
GoneMaxUpdates == 1

\* the ids a caller may pass: every id issued so far and one never issued
GoneIds == 1..(nextId + 1)

\* a completing update and one that names the model; a response with provider,
\* model and usage
GoneUpdates == {u \in Updates : u.keys \in {{"status"}, {"model"}} /\ u.vals # [status |-> "error"]}
GoneResponses == {r \in Responses : r.usage}

\* requests are started past the capacity, so that the oldest are evicted while
\* pending; updates and ends address ids in memory, evicted, cleared and never
\* issued
NextGone ==
  \/ nextId < GoneStarts /\ startRequest(NoSession)
  \/ \E id \in GoneIds, u \in GoneUpdates :
       /\ id \in DOMAIN requests => TotalUpdates < GoneMaxUpdates
       /\ UpdateRequest(id, u)
  \/ \E id \in GoneIds, resp \in GoneResponses, err \in BOOLEAN :
       /\ id \in DOMAIN requests => TotalUpdates < GoneMaxUpdates
       /\ EndRequest(id, resp, err)
  \/ requests # EmptyMap /\ clearLogs(NoSession)

SpecGone == Init /\ [][NextGone]_vars

\* nothing of the service changed and nothing was broadcast
Untouched ==
  /\ requests' = requests /\ sessionMetrics' = sessionMetrics
  /\ metricsFile' = metricsFile /\ diskLog' = diskLog
  /\ frames' = frames /\ emitted' = <<>>

\* C36: updateRequest and endRequest with an id that is not in memory (never
\* issued, evicted or cleared) change no entry and no metrics, append nothing to
\* disk and broadcast no event; so a request evicted while pending is not
\* counted when it ends later
C36_UnknownIdChangesNothing ==
  [][\A id \in GoneIds :
       id \notin DOMAIN requests =>
         /\ \A u \in GoneUpdates : UpdateRequest(id, u) => Untouched
         /\ \A resp \in GoneResponses, err \in BOOLEAN :
              EndRequest(id, resp, err) => Untouched]_vars

\* a request was evicted while pending, the last handler was an update or an
\* end of an id not in memory, and the only update counted is the one of a
\* request still in memory
C36_Witness ==
  /\ nextId = GoneStarts /\ emitted = <<>>
  /\ \E id \in 1..nextId :
       /\ id \notin DOMAIN requests
       /\ \E k \in 1..Len(diskLog) :
            /\ diskLog[k].via = "archiveOldLogs"
            /\ diskLog[k].entry.id = id /\ diskLog[k].entry.status = "pending"
  /\ DOMAIN sessionMetrics = {DefaultSession}
  /\ sessionMetrics[DefaultSession].requestCount = 1
  /\ \E id \in DOMAIN requests : requests[id].status # "pending"

-----------------------------------------------------------------------------
(* Claims on the session filter of a subscriber *)

\* every frame socket w holds belongs to session s: a log or metrics frame
\* carries s, the entries of an initial frame are entries of s
FramesOf(w, s) ==
  \A k \in 1..Len(frames[w]) :
    LET f == frames[w][k]
    IN IF f.type = "initial"
       THEN \A j \in 1..Len(f.ids) : requests[f.ids[j]].sessionId = s
       ELSE f.sessionId = s

\* the frames a handler's events add for a subscriber without filter
Gets(w, added) == frames'[w] = frames[w] \o added

\* C37: a subscriber with session filter s holds only log and metrics frames
\* of s and an initial frame with entries of s only, whatever happens in other
\* sessions; a subscriber without filter gets the frame of every event of
\* every session
C37_FilterKeepsSessionsApart ==
  [][\A w \in StreamSockets :
       /\ subFilter'[w] # NoSession => FramesOf(w, subFilter[w])'
       /\ subState[w] = "open" /\ subFilter[w] = NoSession =>
            /\ \A sid \in SessionInputs :
                 startRequest(sid) => Gets(w, <<LogFrame(requests'[nextId'])>>)
            /\ \A id \in DOMAIN requests, resp \in StreamResponses :
                 EndRequest(id, resp, FALSE) =>
                   Gets(w, <<MetricsFrame(requests[id].sessionId),
                             LogFrame(requests[id]), LogFrame(requests[id])>>)]_vars

\* a subscriber filtered to "s1" got entries in its initial frame and a live
\* frame afterwards, while a request of the default session started after an
\* entry the subscriber was sent live
C37_Witness ==
  \E w \in StreamSockets :
    /\ subFilter[w] = "s1" /\ Len(frames[w]) >= 2
    /\ frames[w][1].ids # <<>>
    /\ \E k \in 2..Len(frames[w]) :
         /\ frames[w][k].live /\ frames[w][k].type = "log"
         /\ \E i \in DOMAIN requests :
              /\ requests[i].sessionId = DefaultSession
              /\ i > frames[w][k].ids[1]

-----------------------------------------------------------------------------
(* Claims on two workers that share metrics.json *)

\* startRequest calls of the two workers together
ShareStarts == 3

\* the second worker's MonitoringService over the shared files
PeerCur == [Cur EXCEPT !.requests = peer.requests, !.sessionMetrics = peer.sessionMetrics]

\* what a handler of the second worker leaves: its own maps, and the files
SetPeer(st) ==
  /\ peer' = [up |-> TRUE, requests |-> st.requests, sessionMetrics |-> st.sessionMetrics]
  /\ metricsFile' = st.metricsFile
  /\ diskLog' = st.diskLog
  /\ metricsDir' = st.metricsDir
  /\ UNCHANGED <<now, requests, sessionMetrics, diskOk, dirOk, raised, emitted,
                 listeners, subState, subFilter, frames>>
  /\ UNCHANGED <<sessionJson, pidFile, refCountFile, procs, call, descPort, bound, boot,
                 round, rmw, spawned, idLog, parsed, waiter, service>>

\* the second worker starts: its constructor loads the file as it is
PeerConstruct ==
  /\ ~peer.up
  /\ SetPeer([PeerCur EXCEPT !.requests = EmptyMap,
                             !.sessionMetrics = loadPersistedMetrics(metricsFile)])
  /\ UNCHANGED nextId

PeerStartRequest(reqSession) ==
  /\ peer.up
  /\ nextId' = nextId + 1
  /\ SetPeer(startRequestEff(PeerCur, nextId + 1, reqSession))

PeerEndRequest(id, response, error) ==
  /\ peer.up
  /\ SetPeer(endRequest(PeerCur, id, response, error))
  /\ UNCHANGED nextId

\* one worker serves the default session and one "s1"; either is started while
\* the other has written the file, and the first is replaced
NextShare ==
  \/ nextId < ShareStarts /\ startRequest(NoSession)
  \/ \E id \in DOMAIN requests, resp \in AvgResponses :
       requests[id].status = "pending" /\ EndRequest(id, resp, FALSE)
  \/ \E sid \in Sessions : sid \in DOMAIN sessionMetrics /\ resetMetrics(sid)
  \/ requests # EmptyMap /\ Construct
  \/ PeerConstruct
  \/ nextId < ShareStarts /\ PeerStartRequest("s1")
  \/ \E id \in DOMAIN peer.requests, resp \in AvgResponses :
       peer.requests[id].status = "pending" /\ PeerEndRequest(id, resp, FALSE)

SpecShare == Init /\ [][NextShare]_vars

\* the completed entries of session s in the per-day log
Completed(s) ==
  Cardinality({k \in 1..Len(diskLog) :
                 diskLog[k].via = "updateRequest" /\ diskLog[k].entry.sessionId = s})

\* C38: every update of an in-memory entry and every resetMetrics leaves in
\* metrics.json the whole metrics map of the worker that ran it, and nothing
\* else: what another worker had written is replaced; a worker started
\* afterwards loads what the file holds
C38_LastWriterWins ==
  [][/\ \A id \in DOMAIN requests, resp \in AvgResponses :
          EndRequest(id, resp, FALSE) => metricsFile' = StringifyMetrics(sessionMetrics')
     /\ \A sid \in Sessions :
          resetMetrics(sid) => metricsFile' = StringifyMetrics(sessionMetrics')
     /\ \A id \in DOMAIN peer.requests, resp \in AvgResponses :
          PeerEndRequest(id, resp, FALSE) =>
            metricsFile' = StringifyMetrics(peer'.sessionMetrics)
     /\ Construct => sessionMetrics' = loadPersistedMetrics(metricsFile)]_vars

\* the first worker completed two requests of the default session and wrote a
\* count of two; the second worker, started in between, wrote its older copy
\* over it; the first worker's replacement has loaded a count of one
C38_Witness ==
  /\ emitted = <<>> /\ requests = EmptyMap /\ peer.up
  /\ Completed(DefaultSession) = 2 /\ Completed("s1") = 1
  /\ DOMAIN sessionMetrics = Sessions
  /\ sessionMetrics[DefaultSession].requestCount = 1
  /\ metricsFile = StringifyMetrics(peer.sessionMetrics)

-----------------------------------------------------------------------------
(* Claims on two starts of one session *)

\* the session a preference resolves to
SessionOfPreference(modelPreference) == SessionOfId(generateSessionId(modelPreference))

\* CCR_MODEL_PREFERENCE in the environment of the command that asked for s
PreferenceOf(s) == CHOOSE p \in StartInputs : SessionOfPreference(p) = s

\* ccr code: main's getSessionConfig and isSessionRunning (cli.ts:79-82);
\* result keeps isRunning until the switch
CliCodeMain(modelPreference) ==
  /\ waiter.pc = "idle"
  /\ waiter' = [IdleWaiter EXCEPT !.pc = "code",
                                  !.sid = SessionOfPreference(modelPreference),
                                  !.result = isSessionRunning(SessionOfPreference(modelPreference))]
  /\ UNCHANGED <<sessionJson, pidFile, refCountFile, procs, call>>
  /\ UNCHANGED <<descPort, bound, boot, round, rmw, spawned, idLog>>
  /\ UNCHANGED <<parsed, service, peer>>
  /\ UNCHANGED monVars

\* mutant of CliCodeCase: the liveness check is made again at the spawn, and a
\* worker that is coming up counts as running
CliCodeCaseChecked ==
  /\ waiter.pc = "code"
  /\ IF \/ waiter.result \/ isSessionRunning(waiter.sid)
        \/ \E k \in 1..Len(spawned) :
             ~spawned[k].up /\ SessionOfPreference(spawned[k].CCR_MODEL_PREFERENCE) = waiter.sid
     THEN waiter' = IdleWaiter /\ UNCHANGED spawned
     ELSE /\ Len(spawned) < MaxSpawns
          /\ spawned' = Append(spawned,
               [cmd |-> <<"node", "cli.js", "start">>, detached |-> TRUE,
                CCR_MODEL_PREFERENCE |-> PreferenceOf(waiter.sid), up |-> FALSE])
          /\ waiter' = [IdleWaiter EXCEPT !.pc = "grace", !.sid = waiter.sid]
  /\ UNCHANGED <<sessionJson, pidFile, refCountFile, procs, call>>
  /\ UNCHANGED <<descPort, bound, boot, round, rmw, idLog>>
  /\ UNCHANGED <<parsed, service, peer>>
  /\ UNCHANGED monVars

\* ccr code: case "code" (cli.ts:179-219): with isRunning false one detached
\* node cli.js start and then waitForService; with isRunning true the code
\* command runs at once
CliCodeCase ==
  /\ waiter.pc = "code"
  /\ IF waiter.result
     THEN waiter' = IdleWaiter /\ UNCHANGED spawned
     ELSE /\ Len(spawned) < MaxSpawns
          /\ spawned' = Append(spawned,
               [cmd |-> <<"node", "cli.js", "start">>, detached |-> TRUE,
                CCR_MODEL_PREFERENCE |-> PreferenceOf(waiter.sid), up |-> FALSE])
          /\ waiter' = [IdleWaiter EXCEPT !.pc = "grace", !.sid = waiter.sid]
  /\ UNCHANGED <<sessionJson, pidFile, refCountFile, procs, call>>
  /\ UNCHANGED <<descPort, bound, boot, round, rmw, idLog>>
  /\ UNCHANGED <<parsed, service, peer>>
  /\ UNCHANGED monVars

\* the start endpoint and ccr code ask for sessions while spawned workers come
\* up
NextRace ==
  \/ \E c \in Callers, modelPreference \in StartInputs : HttpStart(c, modelPreference)
  \/ \E c \in Callers : HttpStartReply(c)
  \/ \E c \in Callers : Return(c)
  \/ \E modelPreference \in StartInputs : CliCodeMain(modelPreference)
  \/ CliCodeCase
  \/ WaitStep
  \/ WaitReturn
  \/ \E k \in 1..MaxSpawns, pid \in Pids : SpawnedStart(k, pid)
  \/ \E s \in Sessions : findAvailablePort(s)
  \/ \E s \in Sessions : RunPersist(s)
  \/ \E s \in Sessions : RunListen(s)

SpecRace == Init /\ [][NextRace]_vars

\* the spawned workers for session s that have not come up
ComingUp(s) ==
  {k \in 1..Len(spawned) :
     ~spawned[k].up /\ SessionOfPreference(spawned[k].CCR_MODEL_PREFERENCE) = s}

\* C39: the spawn follows the liveness check without looking again: ccr code
\* spawns a worker whenever the check made in main was false, and the start
\* endpoint whenever its check is false, also while a worker spawned for the
\* same session is coming up; so two callers asking for one session that is
\* not running both pass the check and two workers are spawned
C39_CheckThenSpawn ==
  [][/\ CliCodeCase /\ ~waiter.result =>
          /\ Len(spawned') = Len(spawned) + 1
          /\ SessionOfPreference(spawned'[Len(spawned')].CCR_MODEL_PREFERENCE) = waiter.sid
     /\ \A c \in Callers, p \in StartInputs :
          HttpStart(c, p) /\ ~MissingPreference(p) /\ ~isSessionRunning(SessionOfPreference(p)) =>
            /\ Len(spawned') = Len(spawned) + 1
            /\ spawned'[Len(spawned')].CCR_MODEL_PREFERENCE = p]_vars

\* the start endpoint and ccr code have both found the session not running and
\* each has spawned a worker for it; neither worker has come up yet
C39_Witness ==
  \E s \in Sessions :
    /\ Cardinality(ComingUp(s)) = 2
    /\ ~isSessionRunning(s)
    /\ waiter.pc = "grace" /\ waiter.sid = s
    /\ \E c \in Callers : call[c].op = "httpStart" /\ call[c].pc = "wait" /\ call[c].sid = s

====
